---- MODULE Spec2Model ----
(***************************************************************************)
(* Verification model of the travel-assistant backend.                     *)
(*                                                                         *)
(* Part I  - ingestion pipeline: stage handlers, idempotency set, the SQS  *)
(*           worker (aws_worker.py) and the in-memory retry/DLQ lists      *)
(*           (dlq.py).                                                     *)
(***************************************************************************)
EXTENDS Integers, Sequences, FiniteSets, Bags, TLC

VARIABLES
    processed,      \* idempotency._processed: set of idempotency keys
    writeEvents,    \* pipeline._write_events: sequence of recorded writes
    emitted,        \* bag of <<content_source_id, stage>> of the successor events
                    \* the stage handlers have returned
                    \* and of <<content_source_id, "retry">> of the retry
                    \* documents process_one_message has sent to the input queue
    requested,      \* bag of <<content_source_id, "requested">> of the requests sent
    inputQueue,     \* the SQS queue named by INGESTION_QUEUE_URL (a bag of bodies)
    dlqQueue,       \* the SQS queue named by INGESTION_DLQ_URL (a bag of bodies)
    dlqUrl,         \* TRUE iff INGESTION_DLQ_URL is configured
    enqueued,       \* number of messages the sender script has sent
    sqsErrors,     \* number of SQS client calls that have raised
    last,           \* what the last process_one_message call did
    wpc,            \* concurrent workers: position of each worker
    wmsg,           \* concurrent workers: the body each worker holds
    expired,        \* concurrent workers: visibility timeouts that ran out
    requeue,        \* dlq._requeue
    DLQ,            \* dlq.DLQ
    popped,         \* the event pop_requeued() returned, held by its caller
    dlqOp,          \* the last dlq.py call: its name, argument and return value
    hcall,          \* the last direct call of a stage handler and what it did
    fcall,          \* the last direct call of an agent-api function
    _STORE,         \* memory_store._STORE: the MemoryState of the session
    conn,           \* agent-api /ws: "open" or "closed"
    turns,          \* /ws: number of user turns read
    responses,      \* /ws: number of response messages sent
    opc,            \* where the turn's handler is (see run_pipeline_raw)
    oreq,           \* the routing inputs of the turn being handled
    obranch,        \* per downstream branch: how its call ended
    oresp,          \* the response run_pipeline_raw returned for the turn
    osent,          \* /ws: what the turn put in its evidence and product requests
    otimeout,       \* TRUE iff the turn's task was cancelled by a request deadline
    csvc,           \* the retrieval service whose process is modelled
    now,            \* time.time() of that process, in ticks
    cstore,         \* cache._store: key -> (value, expires_at)
    cpc,            \* per request handler: idle, or waiting for the backend
    cresp,          \* the last response the service returned
    served,         \* history: per normalized key tuple, the last response
                    \* that was made from a backend call and when it was sent
    backendCalls,   \* number of calls of the retrieval backend
    metrics,        \* metrics counters of the service
    nreq            \* number of requests received

pipelineVars == <<processed, writeEvents, emitted, requested>>
queueVars == <<inputQueue, dlqQueue, dlqUrl, enqueued, sqsErrors, last>>
concVars == <<wpc, wmsg, expired>>
dlqVars == <<requeue, DLQ, popped, dlqOp>>
ingestionVars == <<pipelineVars, queueVars, concVars, dlqVars>>
\* state outside the SQS worker and dlq.py
handlerVars == <<hcall, fcall>>
orchVars == <<conn, turns, responses, opc, oreq, obranch, oresp, osent, otimeout>>
cacheVars == <<csvc, now, cstore, cpc, cresp, served, backendCalls, metrics, nreq>>
restVars == <<handlerVars, orchVars, cacheVars, _STORE>>
\* state outside the agent-api orchestrator
notOrchVars == <<ingestionVars, handlerVars, cacheVars>>
\* state outside the retrieval services
notCacheVars == <<ingestionVars, handlerVars, orchVars, _STORE>>
vars == <<ingestionVars, restVars>>

----------------------------------------------------------------------------
(* Bounds of the model *)

\* messages the sender script puts on the input queue
MaxEnqueue == 1
\* SQS client calls (send_message, delete_message) that raise
MaxSqsErrors == 1
\* user turns read on one session channel
MaxTurns == 2
\* requests one retrieval service receives
MaxRequests == 2
\* last tick of the retrieval service's clock
MaxTime == 3
\* the cache's TTL in ticks (PRODUCT_CACHE_TTL_SECONDS and its siblings)
CacheTtl == 2
\* visibility timeouts that run out while a worker still holds the message
MaxExpiries == 1
\* events handed to handle_failure that did not come from pop_requeued
MaxFailures == 3
\* largest retry_count an event passed to handle_failure carries
MaxRetryCount == 4

(* Program constants *)

\* events.py: max_retries: int = 3 (also the scripts' "max_retries": 3)
DefaultMaxRetries == 3

----------------------------------------------------------------------------
(* Events (events.py, IngestionEventBase) *)

NoSourceType == "None"
NoError == "None"

\* The part of a payload that routes a stage: its source_type tag, the
\* "__fail__" test flag, and whether the input the stage needs is present
\* (video_url for youtube, a non-empty products list for products).
Payload(st, fail, has_input) ==
    [source_type |-> st, fail |-> fail, has_input |-> has_input]

Event(id, cs, stage, payload, rc, mr, err) ==
    [event_id |-> id, content_source_id |-> cs, stage |-> stage,
     payload |-> payload, retry_count |-> rc, max_retries |-> mr, error |-> err]

\* Python's None where an event is expected
None == Event(<<>>, "", "None", Payload(NoSourceType, FALSE, FALSE), 0, 0, NoError)

ContentSources == {"cs1", "youtube:v1", "youtube_kg:v1"}

\* The request payloads a sender puts on the queue for a content source.
RequestPayloads(cs) ==
    IF cs = "youtube:v1"
    THEN { Payload("youtube", FALSE, TRUE) }      \* youtube with video_url
    ELSE IF cs = "youtube_kg:v1"
    THEN { Payload("youtube_kg", FALSE, TRUE) }   \* youtube_kg with video_url
    ELSE { Payload(NoSourceType, FALSE, FALSE),   \* payload={} (mock)
           Payload(NoSourceType, TRUE, FALSE) }   \* payload={"__fail__": True}

EventKey(event) == <<event.content_source_id, event.stage>>

\* str(uuid4()): a value no other event carries. The n-th event made for a
\* content source and stage is named by that triple.
uuid4(cs, stage, made) == <<cs, stage, CopiesIn(<<cs, stage>>, made) + 1>>

\* Outcome of the external effect of a stage (subprocess, LLM, store)
ExtOutcomes == {"ok", "error"}

----------------------------------------------------------------------------
(* Idempotency (idempotency.py) *)

build_idempotency_key(content_source_id, stage) == <<content_source_id, ":", stage>>

already_processed(proc, key) == key \in proc

mark_processed(proc, key) == proc \cup {key}

----------------------------------------------------------------------------
(* Stage handlers (pipeline.py).  A handler call is a function of the event,
   the idempotency set, the recorded writes, the outcome of its external
   effect and the events made so far (for fresh ids); it yields the returned event (or None), which
   return statement was taken, and the two module-level collections. *)

Result(out, why, proc, wr) ==
    [out |-> out, why |-> why, processed |-> proc, writes |-> wr]

\* The event a handler constructs: fresh event_id, the input's
\* content_source_id, retry_count, max_retries and error.
Successor(event, made, stage, payload) ==
    Event(uuid4(event.content_source_id, stage, made), event.content_source_id, stage, payload,
          event.retry_count, event.max_retries, event.error)

\* The payload a stage builds for its successor: the routing tag is kept and
\* the produced data (segments, chunks, cards) is present.
StagePayload(st) == Payload(st, FALSE, TRUE)

\* handle_fetch marking the key before the stage's work has succeeded
handle_fetch_marks_first(event, proc, wr, ext, made) ==
    LET key == build_idempotency_key(event.content_source_id, "transcript")
        st == event.payload.source_type
        marked == mark_processed(proc, key)
    IN  IF already_processed(proc, key) THEN Result(None, "duplicate", proc, wr)
        ELSE IF event.payload.fail THEN Result(None, "failed", marked, wr)
        ELSE IF st \in {"youtube", "products"} /\ ~event.payload.has_input
             THEN Result(None, "failed", marked, wr)
        ELSE IF st = "youtube" /\ ext = "error" THEN Result(None, "raised", marked, wr)
        ELSE IF st \notin {"youtube", "products", NoSourceType}
             THEN Result(None, "failed", marked, wr)
        ELSE Result(Successor(event, made, "transcript", StagePayload(st)),
                    "emitted", marked, wr)

handle_fetch(event, proc, wr, ext, made) ==
    LET key == build_idempotency_key(event.content_source_id, "transcript")
        st == event.payload.source_type
    IN  IF event.payload.fail THEN Result(None, "failed", proc, wr)
        ELSE IF already_processed(proc, key) THEN Result(None, "duplicate", proc, wr)
        ELSE IF st = "youtube" THEN
            IF ~event.payload.has_input THEN Result(None, "failed", proc, wr)
            ELSE IF ext = "error" THEN Result(None, "raised", proc, wr)
            ELSE Result(Successor(event, made, "transcript", StagePayload("youtube")),
                        "emitted", mark_processed(proc, key), wr)
        ELSE IF st = "products" THEN
            IF ~event.payload.has_input THEN Result(None, "failed", proc, wr)
            ELSE Result(Successor(event, made, "transcript", StagePayload("products")),
                        "emitted", mark_processed(proc, key), wr)
        ELSE IF st # NoSourceType THEN Result(None, "failed", proc, wr)
        ELSE Result(Successor(event, made, "transcript", StagePayload(NoSourceType)),
                    "emitted", mark_processed(proc, key), wr)

handle_transcript(event, proc, wr, ext, made) ==
    LET key == build_idempotency_key(event.content_source_id, "chunks")
        st == event.payload.source_type
    IN  IF already_processed(proc, key) THEN Result(None, "duplicate", proc, wr)
        ELSE IF st = "youtube" THEN
            Result(Successor(event, made, "chunks", StagePayload("youtube")),
                   "emitted", mark_processed(proc, key), wr)
        ELSE IF st = "products" THEN
            Result(Successor(event, made, "chunks", StagePayload("products")),
                   "emitted", mark_processed(proc, key), wr)
        ELSE Result(Successor(event, made, "chunks", StagePayload(NoSourceType)),
                    "emitted", mark_processed(proc, key), wr)

handle_chunk(event, proc, wr, ext, made) ==
    LET key == build_idempotency_key(event.content_source_id, "enrichment")
        st == event.payload.source_type
    IN  IF already_processed(proc, key) THEN Result(None, "duplicate", proc, wr)
        ELSE IF st = "youtube" THEN
            IF ext = "error" THEN Result(None, "raised", proc, wr)
            ELSE Result(Successor(event, made, "enrichment", StagePayload("youtube")),
                        "emitted", mark_processed(proc, key), wr)
        ELSE IF st = "products" THEN
            IF ext = "error" THEN Result(None, "raised", proc, wr)
            ELSE Result(Successor(event, made, "enrichment", StagePayload("products")),
                        "emitted", mark_processed(proc, key), wr)
        ELSE Result(Successor(event, made, "enrichment", StagePayload(NoSourceType)),
                    "emitted", mark_processed(proc, key), wr)

handle_enrich(event, proc, wr, ext, made) ==
    LET key == build_idempotency_key(event.content_source_id, "embeddings")
    IN  IF already_processed(proc, key) THEN Result(None, "duplicate", proc, wr)
        ELSE Result(Successor(event, made, "embeddings", event.payload),
                    "emitted", mark_processed(proc, key), wr)

handle_embed(event, proc, wr, ext, made) ==
    LET key == build_idempotency_key(event.content_source_id, "write_complete")
    IN  IF already_processed(proc, key) THEN Result(None, "duplicate", proc, wr)
        ELSE Result(Successor(event, made, "write_complete", event.payload),
                    "emitted", mark_processed(proc, key), wr)

WriteRecord(event) ==
    [content_source_id |-> event.content_source_id, event_id |-> event.event_id]

\* handle_write without the already_processed guard
handle_write_unguarded(event, proc, wr, ext, made) ==
    LET key == build_idempotency_key(event.content_source_id, "write")
        st == event.payload.source_type
    IN  IF st \in {"youtube", "products"} /\ ext = "error"
        THEN Result(None, "raised", proc, wr)
        ELSE Result(None, "written", mark_processed(proc, key),
                    Append(wr, WriteRecord(event)))

handle_write(event, proc, wr, ext, made) ==
    LET key == build_idempotency_key(event.content_source_id, "write")
        st == event.payload.source_type
    IN  IF already_processed(proc, key) THEN Result(None, "duplicate", proc, wr)
        ELSE IF st \in {"youtube", "products"} /\ ext = "error"
             THEN Result(None, "raised", proc, wr)
        ELSE Result(None, "written", mark_processed(proc, key),
                    Append(wr, WriteRecord(event)))

----------------------------------------------------------------------------
(* The SQS worker (aws_worker.py) *)

\* _run_stage: dispatch on the body's stage. Yields the handler's result and
\* the done flag (TRUE only when handle_write returned).
_run_stage(body, proc, wr, ext, made) ==
    LET stage == body.stage
        r == IF stage = "requested" THEN handle_fetch(body, proc, wr, ext, made)
             ELSE IF stage = "transcript" THEN handle_transcript(body, proc, wr, ext, made)
             ELSE IF stage = "chunks" THEN handle_chunk(body, proc, wr, ext, made)
             ELSE IF stage = "enrichment" THEN handle_enrich(body, proc, wr, ext, made)
             ELSE IF stage = "embeddings" THEN handle_embed(body, proc, wr, ext, made)
             ELSE IF stage = "write_complete" THEN handle_write(body, proc, wr, ext, made)
             ELSE Result(None, "failed", proc, wr)
    IN  [next |-> r.out,
         done |-> (stage = "write_complete" /\ r.why # "raised"),
         why |-> r.why, processed |-> r.processed, writes |-> r.writes]

\* The retry document of process_one_message's failure branch.
RetryDoc(body) ==
    [body EXCEPT !.retry_count = body.retry_count + 1,
                 !.error = IF body.error # NoError THEN body.error ELSE "stage failed"]

NoLast ==
    [body |-> None, why |-> "none", sent |-> "none",
     sqsError |-> "none", done |-> FALSE, deleted |-> FALSE]

Log(body, why, sent, sqsError, done, deleted) ==
    [body |-> body, why |-> why, sent |-> sent,
     sqsError |-> sqsError, done |-> done, deleted |-> deleted]

\* Where process_one_message sends for a stage result: "next" (successor to
\* the input queue), "retry" (retry document to the input queue), "dlq"
\* (retry document to the DLQ) or "none" (no send_message call).
SendTarget(body, r, dlq_url) ==
    IF r.done THEN "none"
    ELSE IF r.next # None THEN "next"
    ELSE IF RetryDoc(body).retry_count < RetryDoc(body).max_retries THEN "retry"
    ELSE IF dlq_url THEN "dlq"
    ELSE "none"

\* Outcome of the SQS client calls of one process_one_message: both return,
\* send_message raises, or delete_message raises.
SqsOutcomes == {"ok", "send_error", "delete_error"}

\* process_one_message on a received body. ext is the outcome of the stage's
\* external effect, sqs that of the SQS client calls. An exception (from the
\* handler, from send_message or from delete_message) leaves the function
\* without the message deleted; it stays on the queue and is received again.
process_one_message(body, ext, sqs) ==
    LET r == _run_stage(body, processed, writeEvents, ext, emitted)
        target == SendTarget(body, r, dlqUrl)
        one(b) == SetToBag({b})
        sendRaises == target # "none" /\ sqs = "send_error"
        deleteRaises == ~sendRaises /\ sqs = "delete_error"
        sentInput == IF target = "next" THEN inputQueue (+) one(r.next)
                     ELSE IF target = "retry" THEN inputQueue (+) one(RetryDoc(body))
                     ELSE inputQueue
    IN  /\ IF r.why = "raised"
           THEN /\ sqs = "ok"
                /\ last' = Log(body, "raised", "none", "none", FALSE, FALSE)
                /\ UNCHANGED <<processed, writeEvents, emitted,
                               inputQueue, dlqQueue, sqsErrors>>
           ELSE /\ (sendRaises \/ deleteRaises) => sqsErrors < MaxSqsErrors
                /\ (sqs = "send_error") => sendRaises
                /\ processed' = r.processed
                /\ writeEvents' = r.writes
                /\ emitted' = (IF r.next # None THEN emitted (+) one(EventKey(r.next))
                                               ELSE emitted)
                              (+) (IF target = "retry" /\ ~sendRaises
                                   THEN one(<<body.content_source_id, "retry">>)
                                   ELSE EmptyBag)
                /\ IF sendRaises
                   THEN /\ last' = Log(body, r.why, "none", "send", r.done, FALSE)
                        /\ sqsErrors' = sqsErrors + 1
                        /\ UNCHANGED <<inputQueue, dlqQueue>>
                   ELSE /\ last' = Log(body, r.why, target,
                                       IF deleteRaises THEN "delete" ELSE "none",
                                       r.done, ~deleteRaises)
                        /\ sqsErrors' = IF deleteRaises THEN sqsErrors + 1 ELSE sqsErrors
                        /\ inputQueue' = IF deleteRaises THEN sentInput
                                         ELSE sentInput (-) one(body)
                        /\ dlqQueue' =
                             IF target = "dlq" THEN dlqQueue (+) one(RetryDoc(body))
                             ELSE dlqQueue
        /\ UNCHANGED <<dlqUrl, enqueued, requested>>

\* receive_and_process_once: receive one message (SQS standard queues give no
\* order) and process it.
ReceiveAndProcessOnce ==
    /\ \E body \in BagToSet(inputQueue), ext \in ExtOutcomes, sqs \in SqsOutcomes :
           process_one_message(body, ext, sqs)
    /\ UNCHANGED <<concVars, dlqVars, restVars>>

\* The sender scripts: one "requested" event per content source, fresh
\* event_id, retry_count 0, max_retries 3.
Enqueue ==
    /\ enqueued < MaxEnqueue
    /\ \E cs \in ContentSources : \E pl \in RequestPayloads(cs) :
           /\ inputQueue' = inputQueue (+)
                  SetToBag({Event(uuid4(cs, "requested", requested), cs,
                                  "requested", pl, 0, DefaultMaxRetries, NoError)})
           /\ requested' = requested (+) SetToBag({<<cs, "requested">>})
    /\ enqueued' = enqueued + 1
    /\ UNCHANGED <<processed, writeEvents, emitted, dlqQueue, dlqUrl, last,
                   sqsErrors,
                   concVars, dlqVars, restVars>>

----------------------------------------------------------------------------
(* In-memory retry and dead-letter lists (dlq.py) *)

ErrorMessages == {"simulated error"}

\* handle_failure: the lists after the call, as <<_requeue, DLQ>>.
handle_failure(rq, dl, event, error_msg) ==
    LET retry_count == event.retry_count + 1
        doc == [event EXCEPT !.retry_count = retry_count, !.error = error_msg]
    IN  IF retry_count < doc.max_retries
        THEN <<Append(rq, doc), dl>>
        ELSE <<rq, Append(dl, doc)>>

\* replay_dlq_to_requeue with the DLQ read from its tail
replay_dlq_to_requeue_lifo(rq, dl) ==
    LET RECURSIVE Loop(_, _)
        Loop(r, d) == IF d = <<>> THEN <<r, d>>
                      ELSE Loop(Append(r, d[Len(d)]), SubSeq(d, 1, Len(d) - 1))
    IN  <<Loop(rq, dl)[1], Loop(rq, dl)[2], Len(dl)>>

\* replay_dlq_to_requeue: <<_requeue, DLQ, n>> after the call.
replay_dlq_to_requeue(rq, dl) ==
    LET n == Len(dl)
        RECURSIVE Loop(_, _)
        \* while DLQ: _requeue.append(DLQ.pop(0))
        Loop(r, d) == IF d = <<>> THEN <<r, d>>
                      ELSE Loop(Append(r, Head(d)), Tail(d))
    IN  <<Loop(rq, dl)[1], Loop(rq, dl)[2], n>>

NoOp == [op |-> "none", event |-> None, ret |-> 0]

\* The caller of handle_failure passes an event that did not come from the
\* requeue list (it is in flight with retry_count < max_retries).
HandleFailureNew ==
    /\ BagCardinality(requested) < MaxFailures
    /\ \E cs \in ContentSources, rc \in 0..(DefaultMaxRetries - 1), msg \in ErrorMessages :
         LET event == Event(uuid4(cs, "requested", requested), cs, "requested",
                            Payload(NoSourceType, TRUE, FALSE), rc, DefaultMaxRetries, NoError)
             after == handle_failure(requeue, DLQ, event, msg)
         IN  /\ requeue' = after[1]
             /\ DLQ' = after[2]
             /\ dlqOp' = [op |-> "handle_failure", event |-> event, ret |-> 0]
             /\ requested' = requested (+) SetToBag({<<cs, "requested">>})
    /\ UNCHANGED <<popped, processed, writeEvents, emitted, queueVars, concVars, restVars>>

\* The caller passes the event it popped from the requeue list.
HandleFailurePopped ==
    /\ popped # None
    /\ popped.retry_count < MaxRetryCount
    /\ \E msg \in ErrorMessages :
         LET after == handle_failure(requeue, DLQ, popped, msg)
         IN  /\ requeue' = after[1]
             /\ DLQ' = after[2]
             /\ dlqOp' = [op |-> "handle_failure", event |-> popped, ret |-> 0]
    /\ popped' = None
    /\ UNCHANGED <<pipelineVars, queueVars, concVars, restVars>>

\* pop_requeued: None when the list is empty, else its first entry.
PopRequeued ==
    /\ IF requeue = <<>>
       THEN /\ popped' = None
            /\ requeue' = requeue
       ELSE /\ popped' = Head(requeue)
            /\ requeue' = Tail(requeue)
    /\ dlqOp' = [op |-> "pop_requeued", event |-> popped', ret |-> 0]
    /\ UNCHANGED <<DLQ, pipelineVars, queueVars, concVars, restVars>>

\* The operator's replay tool (replay_dlq.py main).
ReplayDlqToRequeue ==
    LET after == replay_dlq_to_requeue(requeue, DLQ)
    IN  /\ requeue' = after[1]
        /\ DLQ' = after[2]
        /\ dlqOp' = [op |-> "replay_dlq_to_requeue", event |-> None, ret |-> after[3]]
        /\ UNCHANGED <<popped, pipelineVars, queueVars, concVars, restVars>>

InitPipeline ==
    /\ processed = {}
    /\ writeEvents = <<>>
    /\ emitted = EmptyBag
    /\ requested = EmptyBag

InitConcIdle ==
    /\ wpc = <<>>
    /\ wmsg = <<>>
    /\ expired = 0

InitDlqIdle ==
    /\ requeue = <<>>
    /\ DLQ = <<>>
    /\ popped = None
    /\ dlqOp = NoOp

----------------------------------------------------------------------------
(* Text.  A string is a sequence of characters; lower() is given for the
   letters that occur in upper case in the texts used here. *)

IsSpace(c) == c \in {" ", "\t"}

LowerChar(c) ==
    CASE c = "A" -> "a"
      [] c = "B" -> "b"
      [] c = "H" -> "h"
      [] c = "M" -> "m"
      [] c = "P" -> "p"
      [] c = "R" -> "r"
      [] c = "S" -> "s"
      [] OTHER -> c

lower(s) == [i \in 1..Len(s) |-> LowerChar(s[i])]

strip(s) ==
    LET RECURSIVE lstrip(_), rstrip(_)
        lstrip(t) == IF t # <<>> /\ IsSpace(Head(t)) THEN lstrip(Tail(t)) ELSE t
        rstrip(t) == IF t # <<>> /\ IsSpace(t[Len(t)])
                     THEN rstrip(SubSeq(t, 1, Len(t) - 1))
                     ELSE t
    IN  rstrip(lstrip(s))

Digit == {"0", "1", "2", "3", "4", "5", "6", "7", "8", "9"}

\* One item of a regular expression: a character class taken lo to hi times
\* (hi = -1: any number of times); the class {"\\b"} is the word boundary.
ReItem(cls, lo, hi) == [cls |-> cls, lo |-> lo, hi |-> hi]

\* re.search(pattern, text) for a pattern that is a sequence of items.
Search(items, text) ==
    LET WordChar == Digit \cup {"_", "a", "b", "c", "d", "e", "f", "g", "h", "i",
                                "j", "k", "l", "m", "n", "o", "p", "q", "r", "s",
                                "t", "u", "v", "w", "x", "y", "z"}
        AtEdge(pos) == (pos > 1 /\ text[pos - 1] \in WordChar)
                           # (pos <= Len(text) /\ text[pos] \in WordChar)
        Most(k) == IF items[k].hi < 0 \/ items[k].hi > Len(text)
                   THEN Len(text) ELSE items[k].hi
        RECURSIVE From(_, _)
        From(k, pos) ==
            IF k > Len(items) THEN TRUE
            ELSE IF items[k].cls = {"\\b"} THEN AtEdge(pos) /\ From(k + 1, pos)
            ELSE \E c \in items[k].lo .. Most(k) :
                    /\ pos + c - 1 <= Len(text)
                    /\ \A j \in pos .. (pos + c - 1) : text[j] \in items[k].cls
                    /\ From(k + 1, pos + c)
    IN  \E pos \in 1 .. (Len(text) + 1) : From(1, pos)

\* kw in text
Contains(text, kw) ==
    \E i \in 0 .. (Len(text) - Len(kw)) :
        \A j \in 1 .. Len(kw) : text[i + j] = kw[j]

----------------------------------------------------------------------------
(* The session memory of the agent (agent-api/app/memory_store.py).  One
   session is modelled; _STORE is its MemoryState.  A dict is a sequence of
   <<key, value>> pairs in insertion order. *)

MemoryState(preferences, constraints, recent_plan_steps) ==
    [preferences |-> preferences, constraints |-> constraints,
     recent_plan_steps |-> recent_plan_steps]

_max_steps == 3

\* d[k] = v
DictSet(d, k, v) ==
    IF \E i \in 1..Len(d) : d[i][1] = k
    THEN [i \in 1..Len(d) |-> IF d[i][1] = k THEN <<k, v>> ELSE d[i]]
    ELSE Append(d, <<k, v>>)

\* sep.join(parts)
Join(sep, parts) ==
    LET RECURSIVE join(_)
        join(ps) == IF ps = <<>> THEN <<>>
                    ELSE IF Len(ps) = 1 THEN ps[1]
                    ELSE ps[1] \o sep \o join(Tail(ps))
    IN  join(parts)

to_summary(state, max_chars) ==
    LET kv(d) == Join(<<" ">>, [i \in 1..Len(d) |-> d[i][1] \o <<"=">> \o d[i][2]])
        prefs == kv(state.preferences)
        cons == kv(state.constraints)
        parts == (IF prefs # <<>> THEN << <<"p", "r", "e", "f", "s", ":">> \o prefs >> ELSE <<>>)
                 \o (IF cons # <<>> THEN << <<"c", "o", "n", "s", "t", "r", "a", "i", "n", "t", "s", ":">> \o cons >> ELSE <<>>)
                 \o (IF state.recent_plan_steps # <<>>
                     THEN << <<"r", "e", "c", "e", "n", "t", ":">> \o Join(<<";">>, state.recent_plan_steps) >>
                     ELSE <<>>)
        s == Join(<<" ">>, parts)
    IN  IF Len(s) > max_chars THEN SubSeq(s, 1, max_chars) ELSE s

\* _extract(query): of each rule the alternatives whose words occur in the
\* texts used here (budget_style and must).
_extract(query) ==
    LET q == lower(query)
        any(ps) == \E pt \in ps : Search(pt, q)
        prefs == IF any({ <<ReItem({"\\b"}, 0, 0), ReItem({"b"}, 1, 1), ReItem({"u"}, 1, 1), ReItem({"d"}, 1, 1), ReItem({"g"}, 1, 1), ReItem({"e"}, 1, 1), ReItem({"t"}, 1, 1), ReItem({"\\b"}, 0, 0)>>, <<ReItem({"\\b"}, 0, 0), ReItem({"c"}, 1, 1), ReItem({"h"}, 1, 1), ReItem({"e"}, 1, 1), ReItem({"a"}, 1, 1), ReItem({"p"}, 1, 1), ReItem({"\\b"}, 0, 0)>> })
                 THEN << <<<<"b", "u", "d", "g", "e", "t", "_", "s", "t", "y", "l", "e">>, <<"b", "u", "d", "g", "e", "t">>>> >>
                 ELSE IF any({ <<ReItem({"\\b"}, 0, 0), ReItem({"l"}, 1, 1), ReItem({"u"}, 1, 1), ReItem({"x"}, 1, 1), ReItem({"u"}, 1, 1), ReItem({"r"}, 1, 1), ReItem({"y"}, 1, 1), ReItem({"\\b"}, 0, 0)>>, <<ReItem({"\\b"}, 0, 0), ReItem({"p"}, 1, 1), ReItem({"r"}, 1, 1), ReItem({"e"}, 1, 1), ReItem({"m"}, 1, 1), ReItem({"i"}, 1, 1), ReItem({"u"}, 1, 1), ReItem({"m"}, 1, 1), ReItem({"\\b"}, 0, 0)>> })
                 THEN << <<<<"b", "u", "d", "g", "e", "t", "_", "s", "t", "y", "l", "e">>, <<"l", "u", "x", "u", "r", "y">>>> >>
                 ELSE <<>>
        constraints == IF any({ <<ReItem({"\\b"}, 0, 0), ReItem({"m"}, 1, 1), ReItem({"u"}, 1, 1), ReItem({"s"}, 1, 1), ReItem({"t"}, 1, 1), ReItem({" ", "\t"}, 1, -1), ReItem({"s"}, 1, 1), ReItem({"e"}, 1, 1), ReItem({"e"}, 1, 1), ReItem({"\\b"}, 0, 0)>>, <<ReItem({"\\b"}, 0, 0), ReItem({"m"}, 1, 1), ReItem({"u"}, 1, 1), ReItem({"s"}, 1, 1), ReItem({"t"}, 1, 1), ReItem({" ", "\t"}, 1, -1), ReItem({"v"}, 1, 1), ReItem({"i"}, 1, 1), ReItem({"s"}, 1, 1), ReItem({"i"}, 1, 1), ReItem({"t"}, 1, 1), ReItem({"\\b"}, 0, 0)>>, <<ReItem({"\\b"}, 0, 0), ReItem({"m"}, 1, 1), ReItem({"u"}, 1, 1), ReItem({"s"}, 1, 1), ReItem({"t"}, 1, 1), ReItem({" ", "\t"}, 1, -1), ReItem({"d"}, 1, 1), ReItem({"o"}, 1, 1), ReItem({"\\b"}, 0, 0)>> })
                       THEN << <<<<"m", "u", "s", "t">>, <<"e", "x", "t", "r", "a", "c", "t", "e", "d">>>> >>
                       ELSE <<>>
    IN  [prefs |-> prefs, constraints |-> constraints]

\* update that puts the intent in front of the steps as they are
update_no_dedup(state, user_query) ==
    LET ex == _extract(user_query)
        RECURSIVE merge(_, _)
        merge(d, kvs) == IF kvs = <<>> THEN d
                         ELSE merge(DictSet(d, Head(kvs)[1], Head(kvs)[2]), Tail(kvs))
        stripped == strip(user_query)
        intent == SubSeq(stripped, 1, IF Len(stripped) < 200 THEN Len(stripped) ELSE 200)
        kept == state.recent_plan_steps
    IN  MemoryState(merge(state.preferences, ex.prefs),
                    merge(state.constraints, ex.constraints),
                    <<intent>> \o SubSeq(kept, 1, IF Len(kept) < _max_steps - 1
                                                  THEN Len(kept) ELSE _max_steps - 1))

\* update(session_id, user_query, None)
update(state, user_query) ==
    LET ex == _extract(user_query)
        RECURSIVE merge(_, _)
        merge(d, kvs) == IF kvs = <<>> THEN d
                         ELSE merge(DictSet(d, Head(kvs)[1], Head(kvs)[2]), Tail(kvs))
        stripped == strip(user_query)
        intent == SubSeq(stripped, 1, IF Len(stripped) < 200 THEN Len(stripped) ELSE 200)
        kept == SelectSeq(state.recent_plan_steps, LAMBDA st : st # intent)
    IN  MemoryState(merge(state.preferences, ex.prefs),
                    merge(state.constraints, ex.constraints),
                    <<intent>> \o SubSeq(kept, 1, IF Len(kept) < _max_steps - 1
                                                  THEN Len(kept) ELSE _max_steps - 1))

\* summary(session_id) with the default max_chars
summary(state) == to_summary(state, 500)

\* memory_hash(session_id, 8): the digest is kept as the text it was made of
memory_hash(state) ==
    LET s == summary(state)
    IN  IF s # <<>> THEN [sha256 |-> s, length |-> 8] ELSE <<>>

----------------------------------------------------------------------------
(* Part II - the agent orchestrator (agent-api/app/main.py): the /ws session
   channel and run_pipeline_raw.  One turn is handled at a time; the handler
   suspends at each downstream call (await), and the calls are made one after
   the other: vision, evidence, graph, products. *)

Branches == {"vision", "evidence", "graph", "products"}

\* A user turn of the /ws channel: whether image_ref and audio_ref are set,
\* the text of user_query as memory_store reads it, and which keyword
\* families routing finds in the lowercased text.  The text and the families
\* are drawn independently of each other: texts of one family differ in
\* their other words.
Turn(image, audio, user_query, itinerary, commercial, similar, landmark) ==
    [image |-> image, audio |-> audio, user_query |-> user_query,
     itinerary |-> itinerary, commercial |-> commercial,
     similar |-> similar, landmark |-> landmark]

TurnQueries == { <<"a">>, <<" ", "b">> }

Turns == { Turn(i, au, uq, g, c, sm, lm) :
             i \in BOOLEAN, au \in BOOLEAN, uq \in TurnQueries, g \in BOOLEAN,
             c \in BOOLEAN, sm \in BOOLEAN, lm \in BOOLEAN }

NoTurn == Turn(FALSE, FALSE, <<>>, FALSE, FALSE, FALSE, FALSE)

_is_commercial_query(q) == q.commercial

_should_call_graph(q) == q.itinerary

_infer_vision_mode(q) ==
    IF q.similar THEN "product_similarity"
    ELSE IF q.landmark THEN "landmark"
    ELSE "packing"

\* vision_mode of run_pipeline_raw: set only when image_ref is present
VisionMode(q) == IF q.image THEN _infer_vision_mode(q) ELSE "None"

\* How a downstream call can end: a payload that passes its schema and has
\* content ("valid": evidence items, candidates, paths, vision signals with
\* search queries and suggested categories), a payload that passes its schema
\* and is empty ("empty"; of vision "nogap": signals that name no search
\* query and no category to buy), a payload that fails its schema
\* ("invalid"), or an exception
\* from the client: connection error, HTTP error status, per-call timeout
\* ("error").
DownstreamOutcomes(b) ==
    IF b = "vision" THEN {"valid", "nogap", "invalid", "error"}
    ELSE {"valid", "empty", "invalid", "error"}

\* The downstream services of mcp_client.py and what each holds for the turn
Downstream == Branches \cup {"stt"}

NotCalled == [b \in Downstream |-> "notcalled"]

\* The products call made outside any try block
DownstreamCall_products_unguarded(b, outcome) ==
    IF outcome = "error" THEN [raises |-> b = "products", held |-> "error"]
    ELSE IF outcome = "invalid" THEN [raises |-> TRUE, held |-> "invalid"]
    ELSE [raises |-> FALSE, held |-> outcome]

\* One downstream call of run_pipeline_raw with the validation that follows
\* it: whether an exception leaves run_pipeline_raw, and what the branch
\* holds afterwards.
DownstreamCall(b, outcome) ==
    IF outcome = "error" THEN [raises |-> FALSE, held |-> "error"]
    ELSE IF outcome = "invalid" THEN [raises |-> TRUE, held |-> "invalid"]
    ELSE [raises |-> FALSE, held |-> outcome]

\* The suspension point after branch b
NextCall(b, q) ==
    IF b = "vision" THEN "evidence"
    ELSE IF b = "evidence" THEN (IF _should_call_graph(q) THEN "graph" ELSE "products")
    ELSE IF b = "graph" THEN "products"
    ELSE "returned"

\* The response by where its parts come from.
\* The response by where its parts come from; top is the place among the
\* candidates of the one the addon was made of (0: addon is None).
Response(present, vision_prefix, evidence_text, graph_narrative, addon, top) ==
    [present |-> present, vision_prefix |-> vision_prefix,
     evidence_text |-> evidence_text, graph_narrative |-> graph_narrative,
     addon |-> addon, top |-> top]

NoResponse == Response(FALSE, FALSE, FALSE, FALSE, FALSE, 0)

\* What the turn put in its requests: strategy_params of the evidence request
\* and query_signature of the product request (<<>>: None or not yet built).
NoSent == [strategy_params |-> <<>>, query_signature |-> <<>>]

\* run_pipeline_raw reading the summary before it updates the memory
PipelineStart_update_late(state, user_query) ==
    LET mem_summary == summary(state)
    IN  [store |-> update(state, user_query),
         strategy_params |-> IF mem_summary # <<>>
                             THEN << [memory_summary |-> mem_summary, version |-> "v1"] >>
                             ELSE <<>>]

\* run_pipeline_raw before its first call: update, summary, strategy_params
PipelineStart(state, user_query) ==
    LET st == update(state, user_query)
        mem_summary == summary(st)
    IN  [store |-> st,
         strategy_params |-> IF mem_summary # <<>>
                             THEN << [memory_summary |-> mem_summary, version |-> "v1"] >>
                             ELSE <<>>]

\* _build_query_signature(user_query, destination, lang, session_id); the
\* signature is kept as its base and the digest that follows "|mem:".
_build_query_signature(user_query, destination, lang, state) ==
    LET parts == << IF destination # <<>> THEN destination ELSE <<"a", "n", "y">>,
                    SubSeq(user_query, 1, IF Len(user_query) < 100 THEN Len(user_query) ELSE 100),
                    IF lang # <<>> THEN lang ELSE <<"e", "n">> >>
        joined == Join(<<":">>, parts)
        base == SubSeq(joined, 1, IF Len(joined) < 200 THEN Len(joined) ELSE 200)
    IN  [base |-> base, mem |-> memory_hash(state)]

\* The signals of a vision payload that passed its schema
VisionSignals(held) ==
    IF held = "valid"
    THEN [search_queries |-> << <<"s", "c", "a", "r", "f">> >>, missing_categories |-> <<>>,
          suggested_categories_for_products |-> << <<"r", "a", "i", "n", "_", "j", "a", "c", "k", "e", "t">> >>, suitability_ok |-> "False"]
    ELSE [search_queries |-> <<>>, missing_categories |-> << <<"u", "m", "b", "r", "e", "l", "l", "a">> >>,
          suggested_categories_for_products |-> <<>>, suitability_ok |-> "True"]

\* trip_context of a turn that sends none: ctx = {}
NoTripContext == [destination |-> <<>>, rain_risk |-> "None", uv_risk |-> "None"]

\* _get_packing_gap_query; <<>> is None
_get_packing_gap_query(missing_categories, trip_context, suggested_categories_for_products, suitability_ok) ==
    LET CRITICAL_GAP_RULES ==
            << [gap_items |-> { <<"r", "a", "i", "n", "_", "j", "a", "c", "k", "e", "t">> }, key |-> "rain_risk", valid |-> {"medium", "high"}],
               [gap_items |-> { <<"u", "m", "b", "r", "e", "l", "l", "a">> }, key |-> "rain_risk", valid |-> {"high"}],
               [gap_items |-> { <<"s", "u", "n", "_", "p", "r", "o", "t", "e", "c", "t", "i", "o", "n">> }, key |-> "uv_risk", valid |-> {"high"}] >>
        dest == IF trip_context.destination # <<>> THEN trip_context.destination ELSE <<"a", "n", "y">>
        given == SelectSeq(suggested_categories_for_products, LAMBDA c : c # <<>>)
        missing_set == { missing_categories[i] : i \in 1..Len(missing_categories) }
        RECURSIVE rules(_)
        rules(k) ==
            IF k > Len(CRITICAL_GAP_RULES) THEN <<>>
            ELSE LET r == CRITICAL_GAP_RULES[k]
                     hit == r.gap_items \cap missing_set
                 IN  IF hit # {} /\ trip_context[r.key] \in r.valid
                     THEN dest \o <<":">> \o (CHOOSE item \in hit : TRUE) \o <<":", "e", "n">>
                     ELSE rules(k + 1)
    IN  IF given # <<>> /\ suitability_ok \in {"False", "None"}
        THEN dest \o <<":">> \o given[1] \o <<":", "e", "n">>
        ELSE rules(1)

\* The candidates of a product payload
Candidates(held) == IF held = "valid" THEN <<1, 2>> ELSE <<>>

\* product_decision: the query_signature of the product request
ProductQuerySignature(q, held, state) ==
    LET vision_resp == held["vision"] \in {"valid", "nogap"}
        vision_mode == VisionMode(q)
        sig == VisionSignals(held["vision"])
        gap_query == _get_packing_gap_query(sig.missing_categories, NoTripContext,
                                            sig.suggested_categories_for_products,
                                            sig.suitability_ok)
        query_sig == _build_query_signature(q.user_query, <<>>, <<>>, state)
    IN  IF vision_resp /\ vision_mode = "product_similarity"
        THEN IF sig.search_queries # <<>>
             THEN [base |-> <<"a", "n", "y">> \o <<":">> \o sig.search_queries[1] \o <<":", "e", "n">>, mem |-> <<>>]
             ELSE query_sig
        ELSE IF vision_resp /\ vision_mode = "packing" /\ gap_query # <<>>
        THEN [base |-> gap_query, mem |-> <<>>]
        ELSE query_sig

\* The addon made of the last candidate
Assemble_last_candidate(q, held) ==
    LET vision_resp == held["vision"] \in {"valid", "nogap"}
        candidates == Candidates(held["products"])
        vision_mode == VisionMode(q)
        sig == VisionSignals(held["vision"])
        gap_query == _get_packing_gap_query(sig.missing_categories, NoTripContext,
                                            sig.suggested_categories_for_products,
                                            sig.suitability_ok)
        want_addon ==
            \/ _is_commercial_query(q)
            \/ vision_resp /\ vision_mode = "product_similarity" /\ candidates # <<>>
            \/ vision_resp /\ vision_mode = "packing" /\ gap_query # <<>> /\ candidates # <<>>
        addon == candidates # <<>> /\ want_addon
    IN  Response(TRUE, vision_resp, held["evidence"] = "valid",
                 held["graph"] = "valid", addon,
                 IF addon THEN candidates[Len(candidates)] ELSE 0)

\* _build_answer_and_citations and the addon decision, from what the
\* branches hold.
Assemble(q, held) ==
    LET vision_resp == held["vision"] \in {"valid", "nogap"}
        candidates == Candidates(held["products"])
        vision_mode == VisionMode(q)
        sig == VisionSignals(held["vision"])
        gap_query == _get_packing_gap_query(sig.missing_categories, NoTripContext,
                                            sig.suggested_categories_for_products,
                                            sig.suitability_ok)
        want_addon ==
            \/ _is_commercial_query(q)
            \/ vision_resp /\ vision_mode = "product_similarity" /\ candidates # <<>>
            \/ vision_resp /\ vision_mode = "packing" /\ gap_query # <<>> /\ candidates # <<>>
        addon == candidates # <<>> /\ want_addon
    IN  Response(TRUE, vision_resp, held["evidence"] = "valid",
                 held["graph"] = "valid", addon,
                 IF addon THEN candidates[1] ELSE 0)

\* await ws.receive_json(), then run_pipeline_raw up to its first call
WsReceive ==
    /\ conn = "open"
    /\ opc = "idle"
    /\ turns < MaxTurns
    /\ \E q \in Turns :
         /\ oreq' = q
         /\ opc' = IF q.image THEN "vision" ELSE "evidence"
         /\ LET start == PipelineStart(_STORE, q.user_query)
            IN  /\ _STORE' = start.store
                /\ osent' = [NoSent EXCEPT !.strategy_params = start.strategy_params]
    /\ turns' = turns + 1
    /\ obranch' = NotCalled
    /\ oresp' = NoResponse
    /\ UNCHANGED <<conn, responses, otimeout, notOrchVars>>

\* The downstream call the handler is suspended at returns or raises.
CallReturns(b) ==
    /\ conn = "open"
    /\ opc = b
    /\ \E outcome \in DownstreamOutcomes(b) :
         LET r == DownstreamCall(b, outcome)
             held == [obranch EXCEPT ![b] = r.held]
             next == NextCall(b, oreq)
         IN  /\ obranch' = held
             /\ opc' = IF r.raises THEN "raised" ELSE next
             /\ oresp' = IF ~r.raises /\ next = "returned" THEN Assemble(oreq, held)
                         ELSE oresp
             /\ osent' = IF ~r.raises /\ next = "products"
                         THEN [osent EXCEPT !.query_signature =
                                   << ProductQuerySignature(oreq, held, _STORE) >>]
                         ELSE osent
    /\ UNCHANGED <<conn, turns, responses, oreq, otimeout, _STORE, notOrchVars>>

\* response = validate_and_fix(response, user_query); await ws.send_json(response);
\* the loop goes back to receive_json and the turn's locals are gone.
WsSend ==
    /\ conn = "open"
    /\ opc = "returned"
    /\ responses' = responses + 1
    /\ opc' = "idle"
    /\ oreq' = NoTurn
    /\ obranch' = NotCalled
    /\ oresp' = NoResponse
    /\ osent' = NoSent
    /\ UNCHANGED <<conn, turns, otimeout, _STORE, notOrchVars>>

\* An exception other than WebSocketDisconnect leaves ws_endpoint: the
\* channel is closed without a message for the turn.
WsAbort ==
    /\ conn = "open"
    /\ opc \in {"raised", "cancelled"}
    /\ conn' = "closed"
    /\ UNCHANGED <<turns, responses, opc, oreq, obranch, oresp, osent, otimeout, _STORE, notOrchVars>>

\* A deadline on the whole request expires while a downstream call is in
\* flight: the task is cancelled at its await, and the cancellation is not an
\* Exception, so no except clause of run_pipeline_raw handles it.
RequestTimeout ==
    /\ conn = "open"
    /\ opc \in Branches
    /\ otimeout' = TRUE
    /\ opc' = "cancelled"
    /\ UNCHANGED <<conn, turns, responses, oreq, obranch, oresp, osent, _STORE, notOrchVars>>

InitOrch ==
    /\ conn = "open"
    /\ turns = 0
    /\ responses = 0
    /\ opc = "idle"
    /\ oreq = NoTurn
    /\ obranch = NotCalled
    /\ oresp = NoResponse
    /\ osent = NoSent
    /\ otimeout = FALSE
    /\ _STORE = MemoryState(<<>>, <<>>, <<>>)

----------------------------------------------------------------------------
(* Part III - the retrieval services (mcp-travel-knowledge, -products,
   -graph, -vision): the TTL cache of each (app/cache.py) and the request
   handler that reads and fills it (app/main.py).  One process of one service
   is modelled at a time; csvc says which.  The handlers are synchronous
   endpoints run on a thread pool: two requests interleave between the cache
   lookup of one and the return of its backend call. *)

Services == {"knowledge", "products", "graph", "vision"}

\* A string is a sequence of characters; None is a value of its own.
NoneStr == <<"None">>

\* re.sub(r"\s+", " ", s): every run of whitespace becomes one space.
CollapseSpaces(s) ==
    LET RECURSIVE sub(_, _)
        sub(t, inRun) ==
            IF t = <<>> THEN <<>>
            ELSE IF IsSpace(Head(t))
                 THEN (IF inRun THEN <<>> ELSE <<" ">>) \o sub(Tail(t), TRUE)
                 ELSE <<Head(t)>> \o sub(Tail(t), FALSE)
    IN  sub(s, FALSE)

\* Mutation of _normalize_string: the string is used as it was sent.
_normalize_string_raw(s) ==
    IF s = NoneStr THEN <<>> ELSE s

_normalize_string(s) ==
    IF s = NoneStr THEN <<>> ELSE CollapseSpaces(lower(strip(s)))

\* "|".join(parts)
JoinBar(parts) ==
    LET RECURSIVE join(_)
        join(ps) == IF Len(ps) = 1 THEN ps[1]
                    ELSE ps[1] \o <<"|">> \o join(Tail(ps))
    IN  join(parts)

build_cache_key(parts) ==
    JoinBar([i \in 1..Len(parts) |-> _normalize_string(parts[i])])

\* A request: the key parts the callers vary, and for products the
\* min_confidence (<<>> for None, else <<tenths>>).  market and lang are None.
Request(q, dest, mc) == [q |-> q, dest |-> dest, mc |-> mc]

NoMinConfidence == <<>>

StrategyVersion == <<"v", "0">>

\* mcp-travel-knowledge: (user_query, destination, lang, strategy version).
build_cache_key_knowledge(req) ==
    build_cache_key(<<req.q, req.dest, NoneStr, StrategyVersion>>)

\* mcp-travel-products: (query_signature, market, destination, lang).
build_cache_key_products(req) ==
    build_cache_key(<<req.q, NoneStr, req.dest, NoneStr>>)

\* mcp-travel-graph: (user_query, destination, lang).
build_cache_key_graph(req) ==
    build_cache_key(<<req.q, req.dest, NoneStr>>)

\* mcp-travel-vision: sha256(image_ref)[:32] | mode | json.dumps(trip_context
\* or {}).  The digest is a tag in front of the image reference it was taken
\* of; a trip_context of None (dest = None) and an empty one (dest = "") both
\* print as {}.
build_cache_key_vision(req) ==
    <<"#">> \o req.q \o <<"|">> \o <<"packing">> \o <<"|">>
        \o <<"{">> \o (IF req.dest = NoneStr THEN <<>> ELSE req.dest) \o <<"}">>

CacheKey(svc, req) ==
    CASE svc = "knowledge" -> build_cache_key_knowledge(req)
      [] svc = "products" -> build_cache_key_products(req)
      [] svc = "graph" -> build_cache_key_graph(req)
      [] svc = "vision" -> build_cache_key_vision(req)

\* The requests sent: the first two differ in case and whitespace only and in
\* a destination of None against "", the third asks something else.
QueryPlain == <<"a", " ", "b">>
QuerySpaced == <<" ", "A", "\t", " ", "B", " ">>
QueryOther == <<"c">>

MinConfidences(svc) ==
    IF svc = "products" THEN {NoMinConfidence, <<7>>} ELSE {NoMinConfidence}

Requests(svc) ==
    { Request(qd[1], qd[2], mc) :
        qd \in {<<QueryPlain, NoneStr>>, <<QuerySpaced, <<>> >>, <<QueryOther, NoneStr>>},
        mc \in MinConfidences(svc) }

\* What the strings of the requests are after trimming, collapsing runs of
\* whitespace and lowercasing, None being the empty string.
NormalForm(s) ==
    CASE s = QueryPlain -> "a b"
      [] s = QuerySpaced -> "a b"
      [] s = QueryOther -> "c"
      [] s = NoneStr -> ""
      [] s = <<>> -> ""

\* Two requests have the same key tuple after normalization iff they have the
\* same KeyClass.  Vision's tuple is not normalized: the image reference is
\* hashed as it was sent.
KeyClass(svc, req) ==
    IF svc = "vision"
    THEN <<"vision", req.q, NormalForm(req.dest)>>
    ELSE <<svc, NormalForm(req.q), NormalForm(req.dest)>>

\* What a backend answers with: a list of items, each with a confidence in
\* tenths.
Item(id, confidence) == [id |-> id, confidence |-> confidence]

BackendValues ==
    { <<Item("p1", 9), Item("p2", 5)>>, <<Item("p3", 7)>> }

\* What a service answers with when its backend failed: no evidence, the stub
\* candidate, the mock subgraph, the error signals.
FallbackValue(svc) ==
    CASE svc = "knowledge" -> <<>>
      [] svc = "products" -> <<Item("stub-product-01", 5)>>
      [] svc = "graph" -> <<Item("mock", 0)>>
      [] svc = "vision" -> <<Item("error", 0)>>

\* How a backend call ends: with a result ("ok"), without a backend to ask
\* ("failed": no client or driver could be made), or with the query raising
\* ("query_failed").
BackendOutcomes == {"ok", "failed", "query_failed"}

\* cache.get: the value of an entry that has not expired; an entry that has
\* is deleted.  found is FALSE where the code returns None.
\* Mutation of get: an entry is still served at the instant it expires.
get_late(store, key, t) ==
    IF key \notin DOMAIN store
    THEN [found |-> FALSE, value |-> <<>>, store |-> store]
    ELSE IF t > store[key].expires_at
         THEN [found |-> FALSE, value |-> <<>>,
               store |-> [k \in DOMAIN store \ {key} |-> store[k]]]
         ELSE [found |-> TRUE, value |-> store[key].value, store |-> store]

get(store, key, t) ==
    IF key \notin DOMAIN store
    THEN [found |-> FALSE, value |-> <<>>, store |-> store]
    ELSE IF t >= store[key].expires_at
         THEN [found |-> FALSE, value |-> <<>>,
               store |-> [k \in DOMAIN store \ {key} |-> store[k]]]
         ELSE [found |-> TRUE, value |-> store[key].value, store |-> store]

\* cache.set_: _store[key] = (value, time.time() + ttl)
set_(store, key, value, t) ==
    [k \in DOMAIN store \cup {key} |->
        IF k = key THEN [value |-> value, expires_at |-> t + CacheTtl]
                   ELSE store[k]]

\* Mutation of _filter_by_min_confidence: the threshold is exclusive.
_filter_by_min_confidence_strict(candidates, min_confidence) ==
    IF min_confidence = NoMinConfidence THEN candidates
    ELSE SelectSeq(candidates, LAMBDA c : c.confidence > min_confidence[1])

_filter_by_min_confidence(candidates, min_confidence) ==
    IF min_confidence = NoMinConfidence THEN candidates
    ELSE SelectSeq(candidates, LAMBDA c : c.confidence >= min_confidence[1])

\* The payload of a response made from the raw value: only products filters.
Payload_of(svc, req, raw) ==
    IF svc = "products" THEN _filter_by_min_confidence(raw, req.mc) ELSE raw

\* What the handler has after its backend call: the value, whether it is a
\* fallback, and whether the handler writes it to the cache.  Knowledge's
\* backend raises and the handler's except branch answers without caching;
\* the backends of products, graph and vision return their fallback as a
\* value, and the handler caches whatever the backend returned.  In no
\* service does the failure leave the handler as an exception (raises).
\* Mutation of Fetched: knowledge's handler has no except branch.
Fetched_uncaught(svc, outcome, value) ==
    IF outcome = "ok"
    THEN [value |-> value, fallback |-> FALSE, stored |-> TRUE, raises |-> FALSE]
    ELSE [value |-> IF svc = "graph" /\ outcome = "query_failed" THEN <<>>
                    ELSE FallbackValue(svc),
          fallback |-> svc # "knowledge",
          stored |-> svc # "knowledge", raises |-> svc = "knowledge"]

Fetched(svc, outcome, value) ==
    IF outcome = "ok"
    THEN [value |-> value, fallback |-> FALSE, stored |-> TRUE, raises |-> FALSE]
    ELSE [value |-> IF svc = "graph" /\ outcome = "query_failed" THEN <<>>
                    ELSE FallbackValue(svc),
          fallback |-> TRUE,
          stored |-> svc # "knowledge", raises |-> FALSE]

\* metrics.record_request
record_request(m, cache_hit, fallback) ==
    [requests_total |-> m.requests_total + 1,
     cache_hits_total |-> m.cache_hits_total + (IF cache_hit THEN 1 ELSE 0),
     fallback_total |-> m.fallback_total + (IF fallback THEN 1 ELSE 0)]

CacheHandlers == {"t1", "t2"}

NoRequest == Request(NoneStr, NoneStr, NoMinConfidence)

IdleHandler == [pc |-> "idle", req |-> NoRequest, key |-> <<>>]

\* A response: version is its x_contract_version ("none" when the handler
\* raised and the client got an error instead of a response body); backend is
\* how the request's backend call ended ("none" when none was made).
NoCacheResponse ==
    [n |-> 0, req |-> NoRequest, key |-> <<>>, cache_hit |-> FALSE,
     fallback |-> FALSE, payload |-> <<>>, version |-> "none", backend |-> "none"]

InitCache ==
    /\ csvc \in Services
    /\ now = 0
    /\ cstore = <<>>
    /\ cpc = [h \in CacheHandlers |-> IdleHandler]
    /\ cresp = NoCacheResponse
    /\ served = <<>>
    /\ backendCalls = 0
    /\ metrics = [requests_total |-> 0, cache_hits_total |-> 0, fallback_total |-> 0]
    /\ nreq = 0

\* The handler up to its cache lookup.  On a hit it answers from the cache;
\* on a miss it goes on to call the backend.
Receive(h, req) ==
    /\ cpc[h].pc = "idle"
    /\ nreq < MaxRequests
    /\ nreq' = nreq + 1
    /\ LET key == CacheKey(csvc, req)
           cached == get(cstore, key, now)
       IN  /\ cstore' = cached.store
           /\ IF cached.found
              THEN /\ cresp' = [n |-> cresp.n + 1, req |-> req, key |-> key,
                                cache_hit |-> TRUE, fallback |-> FALSE,
                                payload |-> Payload_of(csvc, req, cached.value),
                                version |-> "1.0", backend |-> "none"]
                   /\ metrics' = record_request(metrics, TRUE, FALSE)
                   /\ UNCHANGED <<cpc, served>>
              ELSE /\ cpc' = [cpc EXCEPT ![h] = [pc |-> "backend", req |-> req,
                                                 key |-> key]]
                   /\ UNCHANGED <<cresp, metrics, served>>
    /\ UNCHANGED <<csvc, now, backendCalls, notCacheVars>>

\* The backend call returns; the handler caches, records and answers.
BackendReturns(h) ==
    /\ cpc[h].pc = "backend"
    /\ \E outcome \in BackendOutcomes, value \in BackendValues :
         LET r == Fetched(csvc, outcome, value)
             req == cpc[h].req
             key == cpc[h].key
         IN  IF r.raises
             THEN /\ cresp' = [n |-> cresp.n + 1, req |-> req, key |-> key,
                               cache_hit |-> FALSE, fallback |-> FALSE,
                               payload |-> <<>>, version |-> "none",
                               backend |-> outcome]
                  /\ UNCHANGED <<cstore, metrics, served>>
             ELSE /\ cstore' = IF r.stored THEN set_(cstore, key, r.value, now)
                                           ELSE cstore
                  /\ cresp' = [n |-> cresp.n + 1, req |-> req, key |-> key,
                               cache_hit |-> FALSE, fallback |-> r.fallback,
                               payload |-> Payload_of(csvc, req, r.value),
                               version |-> "1.0", backend |-> outcome]
                  /\ metrics' = record_request(metrics, FALSE, r.fallback)
                  /\ served' = [k \in DOMAIN served \cup {KeyClass(csvc, req)} |->
                                  IF k = KeyClass(csvc, req)
                                  THEN [at |-> now, req |-> req,
                                        fallback |-> r.fallback, raw |-> r.value,
                                        payload |-> Payload_of(csvc, req, r.value)]
                                  ELSE served[k]]
    /\ backendCalls' = backendCalls + 1
    /\ cpc' = [cpc EXCEPT ![h] = IdleHandler]
    /\ UNCHANGED <<csvc, now, nreq, notCacheVars>>

Tick ==
    /\ now < MaxTime
    /\ now' = now + 1
    /\ UNCHANGED <<csvc, cstore, cpc, cresp, served, backendCalls, metrics, nreq,
                   notCacheVars>>

\* No handler has been called directly.
NoCall ==
    [handler |-> "none", event |-> None, why |-> "none", out |-> None, store |-> "none"]

InitRest ==
    /\ hcall = NoCall
    /\ fcall = [fn |-> "none"]
    /\ InitOrch
    /\ InitCache
    /\ csvc = "products"

Init ==
    /\ InitPipeline
    /\ inputQueue = EmptyBag
    /\ dlqQueue = EmptyBag
    /\ dlqUrl \in BOOLEAN
    /\ enqueued = 0
    /\ sqsErrors = 0
    /\ last = NoLast
    /\ InitConcIdle
    /\ InitDlqIdle
    /\ InitRest

Next == Enqueue \/ ReceiveAndProcessOnce

Spec == Init /\ [][Next]_vars

\* The same under run_worker_loop, which polls for ever: a message on the
\* queue is received and processed in the end.  Whether a stage's external
\* work or an SQS call fails is under no fairness condition.
SpecFair == Spec /\ WF_vars(ReceiveAndProcessOnce)

\* The in-memory lists driven by their callers; the SQS worker is not running.
InitDlq ==
    /\ InitPipeline
    /\ inputQueue = EmptyBag
    /\ dlqQueue = EmptyBag
    /\ dlqUrl = FALSE
    /\ enqueued = 0
    /\ sqsErrors = 0
    /\ last = NoLast
    /\ InitConcIdle
    /\ InitDlqIdle
    /\ InitRest

NextDlq == HandleFailureNew \/ HandleFailurePopped \/ PopRequeued \/ ReplayDlqToRequeue

SpecDlq == InitDlq /\ [][NextDlq]_vars

----------------------------------------------------------------------------
(* Several workers on one queue and one idempotency set.  Each worker runs
   receive_and_process_once; the steps of one call interleave with the other
   workers' at the points where the handler reads the idempotency set
   (already_processed) and where it writes it (mark_processed), with the
   stage's external work in between. *)

Workers == {"w1", "w2"}

Held(body, next) == [body |-> body, next |-> next]

\* Number of workers that hold a copy of body.
InFlight(body) == Cardinality({v \in Workers : wpc[v] # "idle" /\ wmsg[v].body = body})

\* receive_message: the message stays on the queue, in flight; once its
\* visibility timeout has run out another worker can receive it too.
ConcReceive(w) ==
    /\ wpc[w] = "idle"
    /\ \E body \in BagToSet(inputQueue) :
           /\ wmsg' = [wmsg EXCEPT ![w] = Held(body, None)]
           /\ IF InFlight(body) < CopiesIn(body, inputQueue)
              THEN expired' = expired
              ELSE /\ expired < MaxExpiries
                   /\ expired' = expired + 1
    /\ wpc' = [wpc EXCEPT ![w] = "received"]
    /\ UNCHANGED <<pipelineVars, queueVars, dlqVars, restVars>>

\* The handler up to and including its already_processed test: it returns
\* None there (failed input or key already marked) or goes on to the work.
ConcCheck(w) ==
    /\ wpc[w] = "received"
    /\ LET r == _run_stage(wmsg[w].body, processed, writeEvents, "ok", emitted)
       IN  wpc' = [wpc EXCEPT ![w] = IF r.why \in {"failed", "duplicate"}
                                      THEN r.why ELSE "working"]
    /\ UNCHANGED <<wmsg, expired, pipelineVars, queueVars, dlqVars, restVars>>

\* The rest of the handler after a passed test: the external work, then
\* mark_processed and the successor event (or the recorded write).
ConcWork(w) ==
    /\ wpc[w] = "working"
    /\ \E ext \in ExtOutcomes :
         LET r == _run_stage(wmsg[w].body, {}, writeEvents, ext, emitted)
         IN  IF r.why = "raised"
             THEN /\ wpc' = [wpc EXCEPT ![w] = "idle"]
                  /\ wmsg' = [wmsg EXCEPT ![w] = Held(None, None)]
                  /\ UNCHANGED <<processed, writeEvents, emitted>>
             ELSE /\ wpc' = [wpc EXCEPT ![w] = r.why]
                  /\ wmsg' = [wmsg EXCEPT ![w] = Held(wmsg[w].body, r.next)]
                  /\ processed' = processed \cup r.processed
                  /\ writeEvents' = r.writes
                  /\ emitted' = IF r.next # None
                                THEN emitted (+) SetToBag({EventKey(r.next)})
                                ELSE emitted
    /\ UNCHANGED <<expired, requested, queueVars, dlqVars, restVars>>

\* The tail of process_one_message: send the successor, the retry document
\* or the DLQ document, then delete the received message.
ConcFinish(w) ==
    /\ wpc[w] \in {"emitted", "written", "failed", "duplicate"}
    /\ LET body == wmsg[w].body
           r == [next |-> wmsg[w].next, done |-> body.stage = "write_complete"]
           target == SendTarget(body, r, dlqUrl)
           one(b) == SetToBag({b})
       IN  /\ inputQueue' =
                (IF target = "next" THEN inputQueue (+) one(r.next)
                 ELSE IF target = "retry" THEN inputQueue (+) one(RetryDoc(body))
                 ELSE inputQueue) (-) one(body)
           /\ dlqQueue' = IF target = "dlq" THEN dlqQueue (+) one(RetryDoc(body))
                          ELSE dlqQueue
    /\ wpc' = [wpc EXCEPT ![w] = "idle"]
    /\ wmsg' = [wmsg EXCEPT ![w] = Held(None, None)]
    /\ UNCHANGED <<expired, pipelineVars, dlqUrl, enqueued, sqsErrors, last, dlqVars, restVars>>

InitConc ==
    /\ InitPipeline
    /\ inputQueue = EmptyBag
    /\ dlqQueue = EmptyBag
    /\ dlqUrl = TRUE
    /\ enqueued = 0
    /\ sqsErrors = 0
    /\ last = NoLast
    /\ wpc = [w \in Workers |-> "idle"]
    /\ wmsg = [w \in Workers |-> Held(None, None)]
    /\ expired = 0
    /\ InitDlqIdle
    /\ InitRest

NextConc ==
    \/ Enqueue
    \/ \E w \in Workers : ConcReceive(w)
    \/ \E w \in Workers : ConcCheck(w)
    \/ \E w \in Workers : ConcWork(w)
    \/ \E w \in Workers : ConcFinish(w)

SpecConc == InitConc /\ [][NextConc]_vars

\* run_worker_loop: `while True` around receive_and_process_once, with every
\* exception caught and printed.  A worker that can take a step of its call
\* takes one in the end; what the stage's external work does is not the
\* worker's choice and is under no fairness condition.
run_worker_loop(w) == ConcReceive(w) \/ ConcCheck(w) \/ ConcWork(w) \/ ConcFinish(w)

SpecConcFair == SpecConc /\ \A w \in Workers : WF_vars(run_worker_loop(w))

----------------------------------------------------------------------------
(* The stage handlers called directly, as their tests and any caller other
   than the SQS worker call them: handle_fetch on a request and handle_write
   on a write_complete event, in any order and any number of times. *)

\* The store function handle_write invokes before it marks the write key:
\* the Weaviate writer of the youtube or products branch, none in the last
\* branch (every other source_type).
StoreWrite(event, proc) ==
    LET key == build_idempotency_key(event.content_source_id, "write")
        st == event.payload.source_type
    IN  IF already_processed(proc, key) THEN "none"
        ELSE IF st = "youtube" THEN "write_youtube_to_weaviate"
        ELSE IF st = "products" THEN "write_products_to_weaviate"
        ELSE "none"

\* The events of the direct calls: per content source its requests and a
\* write_complete event that carries the data to persist.
HandlerEvents ==
    UNION { { Event(<<cs, "requested", 0>>, cs, "requested", pl, 0, DefaultMaxRetries, NoError)
                : pl \in RequestPayloads(cs) }
            \cup
            { Event(<<cs, "write_complete", 0>>, cs, "write_complete",
                    StagePayload(pl.source_type), 0, DefaultMaxRetries, NoError)
                : pl \in RequestPayloads(cs) }
          : cs \in ContentSources }

CallHandleFetch ==
    /\ \E event \in {e \in HandlerEvents : e.stage = "requested"}, ext \in ExtOutcomes :
         LET r == handle_fetch(event, processed, writeEvents, ext, emitted)
         IN  /\ processed' = r.processed
             /\ writeEvents' = r.writes
             /\ emitted' = IF r.out # None THEN emitted (+) SetToBag({EventKey(r.out)})
                                            ELSE emitted
             /\ hcall' = [handler |-> "handle_fetch", event |-> event, why |-> r.why,
                          out |-> r.out, store |-> "none"]
    /\ UNCHANGED <<requested, queueVars, concVars, dlqVars, fcall, orchVars, cacheVars, _STORE>>

CallHandleWrite ==
    /\ \E event \in {e \in HandlerEvents : e.stage = "write_complete"}, ext \in ExtOutcomes :
         LET r == handle_write(event, processed, writeEvents, ext, emitted)
         IN  /\ processed' = r.processed
             /\ writeEvents' = r.writes
             /\ hcall' = [handler |-> "handle_write", event |-> event, why |-> r.why,
                          out |-> r.out, store |-> StoreWrite(event, processed)]
    /\ UNCHANGED <<emitted, requested, queueVars, concVars, dlqVars, fcall, orchVars, cacheVars, _STORE>>

NextHandlers == CallHandleFetch \/ CallHandleWrite

SpecHandlers == InitDlq /\ [][NextHandlers]_vars

NextOrch ==
    \/ WsReceive
    \/ \E b \in Branches : CallReturns(b)
    \/ WsSend
    \/ WsAbort

SpecOrch == InitDlq /\ [][NextOrch]_vars

\* The same with a deadline on the whole request.
NextOrchTimeout == NextOrch \/ RequestTimeout

SpecOrchTimeout == InitDlq /\ [][NextOrchTimeout]_vars

\* One retrieval service, whichever, serving its requests on two threads.
InitCacheSvc ==
    /\ InitPipeline
    /\ inputQueue = EmptyBag
    /\ dlqQueue = EmptyBag
    /\ dlqUrl = FALSE
    /\ enqueued = 0
    /\ sqsErrors = 0
    /\ last = NoLast
    /\ InitConcIdle
    /\ InitDlqIdle
    /\ hcall = NoCall
    /\ fcall = [fn |-> "none"]
    /\ InitOrch
    /\ InitCache

NextCache ==
    \/ \E h \in CacheHandlers, req \in Requests(csvc) : Receive(h, req)
    \/ \E h \in CacheHandlers : BackendReturns(h)
    \/ Tick

SpecCache == InitCacheSvc /\ [][NextCache]_vars

----------------------------------------------------------------------------
(* metrics.record_request as the handlers run it.  The endpoints are plain
   `def` functions, which the framework runs on the threads of a pool, and
   record_request takes no lock: each `_metrics[k] = _metrics.get(k, 0) + 1`
   reads the counter and stores it in two steps, and another thread can run
   between them.  cpc[h] is the thread's place in record_request: the counter
   it is at, the value it read and the arguments of the call.  nreq counts
   the calls, backendCalls those of them that were no cache hit, and served
   becomes <<"overlapped">> when a call starts while another is under way. *)

IdleRecorder ==
    [pc |-> "idle", counter |-> "none", read |-> 0,
     cache_hit |-> FALSE, fallback |-> FALSE]

\* The counter record_request goes to after counter c, "none" after the last
NextCounter(c, cache_hit, fallback) ==
    IF c = "requests_total" /\ cache_hit THEN "cache_hits_total"
    ELSE IF c \in {"requests_total", "cache_hits_total"} /\ fallback THEN "fallback_total"
    ELSE "none"

\* A handler calls record_request: on a cache hit (never a fallback) or
\* after its backend call.
RecordRequestCall(h) ==
    /\ cpc[h].pc = "idle"
    /\ nreq < MaxRequests
    /\ nreq' = nreq + 1
    /\ \E cache_hit \in BOOLEAN, fallback \in BOOLEAN :
         /\ cache_hit => ~fallback
         /\ cpc' = [cpc EXCEPT ![h] = [pc |-> "get", counter |-> "requests_total",
                                        read |-> 0, cache_hit |-> cache_hit,
                                        fallback |-> fallback]]
         /\ backendCalls' = IF cache_hit THEN backendCalls ELSE backendCalls + 1
         /\ served' = IF \E g \in CacheHandlers : cpc[g].pc # "idle"
                       THEN <<"overlapped">> ELSE served
    /\ UNCHANGED <<csvc, now, cstore, cresp, metrics, notCacheVars>>

\* _metrics.get(k, 0)
RecordRequestGet(h) ==
    /\ cpc[h].pc = "get"
    /\ cpc' = [cpc EXCEPT ![h].pc = "store", ![h].read = metrics[cpc[h].counter]]
    /\ UNCHANGED <<csvc, now, cstore, cresp, served, backendCalls, metrics, nreq,
                   notCacheVars>>

\* _metrics[k] = <the value read> + 1
RecordRequestStore(h) ==
    /\ cpc[h].pc = "store"
    /\ metrics' = [metrics EXCEPT ![cpc[h].counter] = cpc[h].read + 1]
    /\ LET c == NextCounter(cpc[h].counter, cpc[h].cache_hit, cpc[h].fallback)
       IN  cpc' = [cpc EXCEPT ![h] = IF c = "none" THEN IdleRecorder
                                     ELSE [cpc[h] EXCEPT !.pc = "get", !.counter = c]]
    /\ UNCHANGED <<csvc, now, cstore, cresp, served, backendCalls, nreq,
                   notCacheVars>>

InitMetrics ==
    /\ InitPipeline
    /\ inputQueue = EmptyBag
    /\ dlqQueue = EmptyBag
    /\ dlqUrl = FALSE
    /\ enqueued = 0
    /\ sqsErrors = 0
    /\ last = NoLast
    /\ InitConcIdle
    /\ InitDlqIdle
    /\ hcall = NoCall
    /\ fcall = [fn |-> "none"]
    /\ InitOrch
    /\ csvc = "graph"
    /\ now = 0
    /\ cstore = <<>>
    /\ cpc = [h \in CacheHandlers |-> IdleRecorder]
    /\ cresp = NoCacheResponse
    /\ served = <<>>
    /\ backendCalls = 0
    /\ metrics = [requests_total |-> 0, cache_hits_total |-> 0, fallback_total |-> 0]
    /\ nreq = 0

NextMetrics ==
    \/ \E h \in CacheHandlers : RecordRequestCall(h)
    \/ \E h \in CacheHandlers : RecordRequestGet(h)
    \/ \E h \in CacheHandlers : RecordRequestStore(h)

SpecMetrics == InitMetrics /\ [][NextMetrics]_vars

----------------------------------------------------------------------------
(* Part IV - functions of the agent-api called directly, as its unit tests
   call them: the response guardrails (guardrails.py).  Text is a sequence
   of characters.  fcall holds the last call: the function, its arguments,
   what it returned and what it left in the caller's argument. *)

SAFE_FALLBACK ==
    << "N", "ã", "o", " ", "t", "e", "n", "h", "o", " ", "f", "o",
       "n", "t", "e", "s", " ", "s", "u", "f", "i", "c", "i", "e",
       "n", "t", "e", "s", " ", "p", "a", "r", "a", " ", "c", "o",
       "n", "f", "i", "r", "m", "a", "r", " ", "e", "s", "s", "a",
       "s", " ", "i", "n", "f", "o", "r", "m", "a", "ç", "õ", "e",
       "s", "." >>

\* The alternatives of CURRENCY_PATTERN; re.I is the lowercasing of the text
\* searched.
CURRENCY_PATTERN ==
    { <<ReItem({"r"}, 1, 1), ReItem({"$"}, 1, 1), ReItem({" ", "\t"}, 0, -1), ReItem(Digit, 1, 1)>>,
      <<ReItem({"u"}, 1, 1), ReItem({"s"}, 1, 1), ReItem({"d"}, 1, 1), ReItem({" ", "\t"}, 0, -1), ReItem(Digit, 1, 1)>>,
      <<ReItem({"b"}, 1, 1), ReItem({"r"}, 1, 1), ReItem({"l"}, 1, 1), ReItem({" ", "\t"}, 0, -1), ReItem(Digit, 1, 1)>>,
      <<ReItem({"$"}, 1, 1), ReItem({" ", "\t"}, 0, -1), ReItem(Digit, 1, 1)>>,
      <<ReItem(Digit, 1, -1), ReItem({" ", "\t"}, 0, -1), ReItem({"r"}, 1, 1), ReItem({"$"}, 1, 1)>>,
      <<ReItem(Digit, 1, -1), ReItem({" ", "\t"}, 0, -1), ReItem({"u"}, 1, 1), ReItem({"s"}, 1, 1), ReItem({"d"}, 1, 1)>>,
      <<ReItem(Digit, 1, -1), ReItem({" ", "\t"}, 0, -1), ReItem({"b"}, 1, 1), ReItem({"r"}, 1, 1), ReItem({"l"}, 1, 1)>> }

FACTUAL_PATTERNS ==
    { <<ReItem({"("}, 1, 1), ReItem({"s"}, 1, 1), ReItem({"o"}, 1, 1), ReItem({"u"}, 1, 1), ReItem({"r"}, 1, 1), ReItem({"c"}, 1, 1), ReItem({"e"}, 1, 1), ReItem({":"}, 1, 1)>>,
      <<ReItem({"\\b"}, 0, 0), ReItem(Digit, 1, 2), ReItem({"/", "-"}, 1, 1), ReItem(Digit, 1, 2), ReItem({"/", "-"}, 1, 1), ReItem(Digit, 2, 4), ReItem({"\\b"}, 0, 0)>>,
      <<ReItem({"\\b"}, 0, 0), ReItem(Digit, 4, 4), ReItem({"-"}, 1, 1), ReItem(Digit, 2, 2), ReItem({"-"}, 1, 1), ReItem(Digit, 2, 2), ReItem({"\\b"}, 0, 0)>>,
      <<ReItem({"\\b"}, 0, 0), ReItem(Digit, 1, -1), ReItem({" ", "\t"}, 0, -1), ReItem({"a"}, 1, 1), ReItem({"m"}, 1, 1), ReItem({"\\b"}, 0, 0)>>,
      <<ReItem({"\\b"}, 0, 0), ReItem(Digit, 1, -1), ReItem({" ", "\t"}, 0, -1), ReItem({"p"}, 1, 1), ReItem({"m"}, 1, 1), ReItem({"\\b"}, 0, 0)>>,
      <<ReItem({"\\b"}, 0, 0), ReItem(Digit, 1, -1), ReItem({" ", "\t"}, 0, -1), ReItem({"h"}, 1, 1), ReItem({"\\b"}, 0, 0)>>,
      <<ReItem({"\\b"}, 0, 0), ReItem(Digit, 1, -1), ReItem({" ", "\t"}, 0, -1), ReItem({"h"}, 1, 1), ReItem({"o"}, 1, 1), ReItem({"r"}, 1, 1), ReItem({"a"}, 1, 1), ReItem({"s"}, 0, 1), ReItem({"\\b"}, 0, 0)>>,
      <<ReItem({"\\b"}, 0, 0), ReItem({"m"}, 1, 1), ReItem({"u"}, 1, 1), ReItem({"s"}, 1, 1), ReItem({"t"}, 1, 1), ReItem({"\\b"}, 0, 0)>>,
      <<ReItem({"\\b"}, 0, 0), ReItem({"r"}, 1, 1), ReItem({"e"}, 1, 1), ReItem({"q"}, 1, 1), ReItem({"u"}, 1, 1), ReItem({"i"}, 1, 1), ReItem({"r"}, 1, 1), ReItem({"e"}, 1, 1), ReItem({"s"}, 0, 1), ReItem({"\\b"}, 0, 0)>>,
      <<ReItem({"\\b"}, 0, 0), ReItem({"r"}, 1, 1), ReItem({"u"}, 1, 1), ReItem({"l"}, 1, 1), ReItem({"e"}, 1, 1), ReItem({"s"}, 0, 1), ReItem({"\\b"}, 0, 0)>> }

BUCKET_KEYWORDS ==
    << [bucket |-> "tickets",
        keywords |-> {<<"i", "n", "g", "r", "e", "s", "s", "o">>,
                      <<"t", "i", "c", "k", "e", "t">>,
                      <<"p", "a", "s", "s">>,
                      <<"p", "a", "s", "s", "e", "s">>,
                      <<"b", "i", "l", "h", "e", "t", "e">>}],
       [bucket |-> "hotel",
        keywords |-> {<<"h", "o", "t", "e", "l">>,
                      <<"h", "o", "s", "p", "e", "d", "a", "g", "e", "m">>,
                      <<"a", "c", "c", "o", "m", "m", "o", "d", "a", "t", "i", "o", "n">>,
                      <<"s", "t", "a", "y">>,
                      <<"r", "e", "s", "e", "r", "v", "a">>}],
       [bucket |-> "insurance",
        keywords |-> {<<"s", "e", "g", "u", "r", "o">>,
                      <<"i", "n", "s", "u", "r", "a", "n", "c", "e">>}],
       [bucket |-> "esim",
        keywords |-> {<<"e", "s", "i", "m">>,
                      <<"e", "-", "s", "i", "m">>,
                      <<"c", "h", "i", "p">>}],
       [bucket |-> "transport",
        keywords |-> {<<"t", "r", "a", "n", "s", "p", "o", "r", "t", "e">>,
                      <<"t", "r", "a", "n", "s", "p", "o", "r", "t">>,
                      <<"v", "o", "o">>,
                      <<"f", "l", "i", "g", "h", "t">>,
                      <<"c", "a", "r", "r", "o">>,
                      <<"c", "a", "r">>}],
       [bucket |-> "planner",
        keywords |-> {<<"p", "l", "a", "n", "n", "e", "r">>,
                      <<"p", "l", "a", "n", "e", "j", "a", "d", "o", "r">>,
                      <<"r", "o", "t", "e", "i", "r", "o">>}],
       [bucket |-> "shopping",
        keywords |-> {<<"c", "o", "m", "p", "r", "a", "r">>,
                      <<"b", "u", "y">>,
                      <<"s", "h", "o", "p", "p", "i", "n", "g">>}] >>

_has_currency(text) ==
    \E p \in CURRENCY_PATTERN : Search(p, lower(text))

\* Mutation of _looks_factual: no pattern for dates and times.
_looks_factual_words_only(text) ==
    \E p \in {f \in FACTUAL_PATTERNS : \A k \in DOMAIN f : f[k].cls # Digit} :
        Search(p, lower(text))

_looks_factual(text) ==
    \E p \in FACTUAL_PATTERNS : Search(p, lower(text))

\* The first bucket, in the order of BUCKET_KEYWORDS, one of whose keywords
\* occurs in the addon's summary, primary_category, merchant and categories
\* joined by spaces and lowercased; "none" when there is none.  The addon the
\* orchestrator builds has neither primary_category nor categories.
infer_addon_bucket(addon) ==
    LET combined == lower(addon.summary \o <<" ">> \o <<" ">> \o addon.merchant
                          \o <<" ">>)
        hit(i) == \E kw \in BUCKET_KEYWORDS[i].keywords : Contains(combined, kw)
    IN  IF \E i \in DOMAIN BUCKET_KEYWORDS : hit(i)
        THEN BUCKET_KEYWORDS[CHOOSE i \in DOMAIN BUCKET_KEYWORDS :
                                hit(i) /\ \A j \in 1 .. (i - 1) : ~hit(j)].bucket
        ELSE "none"

_user_requested_bucket(user_query, bucket) ==
    \E i \in DOMAIN BUCKET_KEYWORDS :
        /\ BUCKET_KEYWORDS[i].bucket = bucket
        /\ \E kw \in BUCKET_KEYWORDS[i].keywords : Contains(lower(user_query), kw)

\* Mutation of validate_and_fix: the fixes are written into the caller's dict.
validate_and_fix_in_place(response, user_query) ==
    LET fixed == IF response.citations = <<>>
                    /\ (_has_currency(response.answer_text)
                        \/ _looks_factual(response.answer_text))
                 THEN [response EXCEPT !.answer_text = SAFE_FALLBACK,
                                       !.citations = <<>>]
                 ELSE response
    IN  [out |-> fixed, response |-> fixed]

\* validate_and_fix on {session_id, request_id, answer_text, citations,
\* addon}; addon is <<>> for None and <<dict>> otherwise.  out is what it
\* returns, response what the caller's dict holds afterwards.
validate_and_fix(response, user_query) ==
    LET has_citations == Len(response.citations) > 0
        answered ==
            IF ~has_citations
               /\ (_has_currency(response.answer_text)
                   \/ _looks_factual(response.answer_text)
                   \/ Contains(response.answer_text, <<"(", "S", "o", "u", "r", "c", "e", ":">>))
            THEN [response EXCEPT !.answer_text = SAFE_FALLBACK, !.citations = <<>>]
            ELSE response
        bucket == infer_addon_bucket(response.addon[1])
        out == IF response.addon # <<>> /\ bucket # "none"
                  /\ ~_user_requested_bucket(user_query, bucket)
               THEN [answered EXCEPT !.addon = <<>>]
               ELSE answered
    IN  [out |-> out, response |-> response]

\* The answers, addons and queries the function is called with.  Each comes
\* with what it is: whether the answer states a fact (an amount, a date, a
\* time, an obligation, a source marker), which bucket the addon's words
\* belong to, which buckets the query's words mention.
AnswerSamples ==
    { [text |-> <<"R", "$", " ", "5", "0">>, factual |-> TRUE],
      [text |-> <<"5", "0", " ", "u", "s", "d">>, factual |-> TRUE],
      [text |-> <<"1", "2", "/", "0", "5", "/", "2", "4">>, factual |-> TRUE],
      [text |-> <<"2", "0", "2", "4", "-", "0", "5", "-", "1", "2">>, factual |-> TRUE],
      [text |-> <<"8", "a", "m">>, factual |-> TRUE],
      [text |-> <<"M", "u", "s", "t", " ", "g", "o">>, factual |-> TRUE],
      [text |-> <<"(", "S", "o", "u", "r", "c", "e", ":", " ", "a", ")">>, factual |-> TRUE],
      [text |-> <<"g", "o", " ", "e", "a", "r", "l", "y">>, factual |-> FALSE],
      [text |-> <<"m", "u", "s", "t", "a", "r", "d">>, factual |-> FALSE],
      [text |-> <<"t", "h", "e", " ", "r", "u", "l", "e", "s">>, factual |-> TRUE],
      [text |-> <<"r", "e", "q", "u", "i", "r", "e", "s", " ", "i", "d">>, factual |-> TRUE],
      [text |-> <<"d", "a", "y", " ", "5">>, factual |-> FALSE] }

AddonSamples ==
    { [addon |-> [product_id |-> "p-hotel", summary |-> <<"B", "e", "s", "t", " ", "H", "o", "t", "e", "l", " ", "d", "e", "a", "l", "s">>, merchant |-> <<"H", "o", "t", "e", "l", "s">>,
                  link |-> "https://p-hotel"],
       bucket |-> "hotel"],
      [addon |-> [product_id |-> "p-pass", summary |-> <<"p", "a", "r", "k", " ", "p", "a", "s", "s">>, merchant |-> <<"P", "a", "r", "k", "s">>,
                  link |-> "https://p-pass"],
       bucket |-> "tickets"],
      [addon |-> [product_id |-> "stub-product-01", summary |-> <<"S", "t", "u", "b", " ", "s", "u", "m", "m", "a", "r", "y">>, merchant |-> <<"S", "t", "u", "b">>,
                  link |-> "https://stub-product-01"],
       bucket |-> "none"],
      [addon |-> [product_id |-> "p-rug", summary |-> <<"c", "a", "r", "p", "e", "t">>, merchant |-> <<"R", "u", "g", "s">>,
                  link |-> "https://p-rug"],
       bucket |-> "transport"] }

QuerySamples ==
    { [text |-> <<"H", "o", "t", "e", "l", " ", "t", "i", "p", "s">>, mentions |-> {"hotel"}],
      [text |-> <<"p", "a", "s", "s", "e", "i", "o">>, mentions |-> {"tickets"}],
      [text |-> <<"o", "i">>, mentions |-> {}],
      [text |-> <<"b", "u", "y", " ", "c", "a", "r">>, mentions |-> {"transport", "shopping"}] }

CallValidateAndFix ==
    /\ fcall.fn = "none"
    /\ \E a \in AnswerSamples, cit \in {<<>>, <<"https://example.com/tips">>},
          ad \in {<<>>} \cup {<<x.addon>> : x \in AddonSamples}, q \in QuerySamples :
         LET response == [session_id |-> "s1", request_id |-> "r1",
                          answer_text |-> a.text, citations |-> cit, addon |-> ad]
             r == validate_and_fix(response, q.text)
         IN  fcall' = [fn |-> "validate_and_fix", response |-> response,
                       user_query |-> q.text, out |-> r.out, after |-> r.response]
    /\ UNCHANGED <<hcall, ingestionVars, orchVars, cacheVars, _STORE>>

\* _build_answer_and_citations with the graph before the evidence
_build_answer_and_citations_graph_first(evidence, graph_response, vision_response) ==
    LET Take(xs, n) == SubSeq(xs, 1, IF Len(xs) < n THEN Len(xs) ELSE n)
        Urls(xs) == SelectSeq(xs, LAMBDA u : u # <<>>)
        RECURSIVE Flat(_)
        Flat(xss) == IF xss = <<>> THEN <<>> ELSE Head(xss) \o Flat(Tail(xss))
        sig == vision_response[1].signals
        packing ==
            (IF sig.suitability_ok = "True" THEN << <<"T", "h", "i", "s", " ", "o", "u", "t", "f", "i", "t", " ", "l", "o", "o", "k", "s", " ", "s", "u", "i", "t", "a", "b", "l", "e", " ", "f", "o", "r", " ", "y", "o", "u", "r", " ", "t", "r", "i", "p", ".">> >>
             ELSE IF sig.suitability_ok = "False" /\ sig.suitability_issue # <<>>
             THEN << <<"T", "h", "i", "s", " ", "o", "u", "t", "f", "i", "t", " ", "m", "a", "y", " ", "n", "o", "t", " ", "b", "e", " ", "i", "d", "e", "a", "l", ":", " ">> \o sig.suitability_issue >>
             ELSE <<>>)
            \o (IF sig.detected_items # <<>>
                THEN << <<"D", "e", "t", "e", "c", "t", "e", "d", ":", " ">> \o Join(<<",", " ">>, Take(sig.detected_items, 8)) \o <<".">> >>
                ELSE <<>>)
            \o (IF sig.suggested_categories_for_products # <<>>
                THEN << <<"C", "o", "n", "s", "i", "d", "e", "r", " ", "a", "d", "d", "i", "n", "g", ":", " ">>
                        \o Join(<<",", " ">>, Take(sig.suggested_categories_for_products, 5)) \o <<".">> >>
                ELSE IF sig.missing_categories # <<>>
                THEN << <<"C", "o", "n", "s", "i", "d", "e", "r", " ", "a", "d", "d", "i", "n", "g", " ", "f", "o", "r", " ", "y", "o", "u", "r", " ", "t", "r", "i", "p", ":", " ">>
                        \o Join(<<",", " ">>, Take(sig.missing_categories, 5)) \o <<".">> >>
                ELSE <<>>)
            \o (IF sig.detected_items = <<>> /\ sig.missing_categories = <<>>
                   /\ sig.suitability_ok = "None"
                THEN << <<"C", "o", "u", "l", "d", " ", "n", "o", "t", " ", "c", "l", "e", "a", "r", "l", "y", " ", "d", "e", "t", "e", "c", "t", " ", "t", "r", "a", "v", "e", "l", " ", "i", "t", "e", "m", "s", ".", " ", "P", "a", "c", "k", " ", "a", "c", "c", "o", "r", "d", "i", "n", "g", " ", "t", "o", " ", "y", "o", "u", "r", " ", "t", "r", "i", "p", " ", "c", "o", "n", "t", "e", "x", "t", ".">> >>
                ELSE <<>>)
        scene == IF sig.scene_type # <<>> THEN sig.scene_type ELSE <<"p", "l", "a", "c", "e">>
        landmark ==
            IF sig.place_candidates # <<>>
            THEN LET top == sig.place_candidates[1]
                 IN  IF top.confidence >= 6
                     THEN << <<"P", "a", "r", "e", "c", "e", " ", "s", "e", "r", " ">> \o top.place_name
                             \o <<".", " ", "Q", "u", "e", "r", " ", "d", "i", "c", "a", "s", " ", "d", "o", " ", "q", "u", "e", " ", "f", "a", "z", "e", "r", " ", "p", "o", "r", " ", "p", "e", "r", "t", "o", "?">> >>
                     ELSE << <<"P", "o", "s", "s", "í", "v", "e", "l", "m", "e", "n", "t", "e", " ">> \o top.place_name \o <<" ", "o", "u", " ", "l", "o", "c", "a", "l", " ", "s", "i", "m", "i", "l", "a", "r", " ", "(">>
                             \o scene \o <<")", ".", " ", "Q", "u", "e", "r", " ", "q", "u", "e", " ", "e", "u", " ", "s", "u", "g", "i", "r", "a", " ", "o", " ", "q", "u", "e", " ", "f", "a", "z", "e", "r", " ", "p", "o", "r", " ", "p", "e", "r", "t", "o", "?">> >>
            ELSE << <<"P", "a", "r", "e", "c", "e", " ", "u", "m", " ", "l", "o", "c", "a", "l", " ", "d", "o", " ", "t", "i", "p", "o", " ">> \o scene
                    \o <<".", " ", "Q", "u", "e", "r", " ", "d", "i", "c", "a", "s", " ", "d", "o", " ", "q", "u", "e", " ", "f", "a", "z", "e", "r", " ", "p", "o", "r", " ", "p", "e", "r", "t", "o", "?">> >>
        similarity ==
            LET cat == IF sig.category # <<>> THEN sig.category ELSE <<"i", "t", "e", "m">>
                attrs == Take(sig.attributes, 3)
                desc_parts ==
                    << cat >>
                    \o (IF sig.attributes # <<>>
                        THEN << Join(<<",", " ">>, [i \in 1..Len(attrs) |->
                                               attrs[i][1] \o <<":", " ">> \o attrs[i][2]]) >>
                        ELSE <<>>)
                    \o (IF sig.style_keywords # <<>>
                        THEN << <<"s", "t", "y", "l", "e", ":", " ">> \o Join(<<",", " ">>, Take(sig.style_keywords, 3)) >>
                        ELSE <<>>)
            IN  << <<"P", "r", "o", "d", "u", "t", "o", "s", " ", "s", "i", "m", "i", "l", "a", "r", "e", "s", ":", " ">> \o Join(<<";", " ">>, desc_parts) \o <<".">> >>
        vision_parts ==
            IF vision_response = <<>> THEN <<>>
            ELSE IF sig.mode = "packing" THEN packing
            ELSE IF sig.mode = "landmark" THEN landmark
            ELSE IF sig.mode = "product_similarity" THEN similarity
            ELSE <<>>
        evidence_parts ==
            IF evidence # <<>>
            THEN << Join(<<" ">>, [i \in 1..Len(evidence) |-> evidence[i].summary]) >>
            ELSE <<>>
        evidence_citations == Urls([i \in 1..Len(evidence) |-> evidence[i].source_url])
        g == graph_response[1]
        name_of(nid) ==
            IF \E i \in 1..Len(g.subgraph.nodes) : g.subgraph.nodes[i].id = nid
            THEN LET i == CHOOSE k \in 1..Len(g.subgraph.nodes) :
                              /\ g.subgraph.nodes[k].id = nid
                              /\ \A m \in (k + 1)..Len(g.subgraph.nodes) :
                                    g.subgraph.nodes[m].id # nid
                 IN  g.subgraph.nodes[i].name
            ELSE nid
        line(pt) ==
            LET label == IF pt.label # <<>> THEN pt.label
                         ELSE IF pt.path_id # <<>> THEN pt.path_id ELSE <<"I", "t", "i", "n", "e", "r", "a", "r", "y">>
                names == [i \in 1..Len(pt.nodes) |-> name_of(pt.nodes[i])]
            IN  IF names # <<>> THEN label \o <<":", " ">> \o Join(<<",", " ">>, names) ELSE label
        shown == Take(g.paths, 3)
        path_lines == [i \in 1..Len(shown) |-> line(shown[i])]
        graph_parts ==
            IF graph_response # <<>> /\ path_lines # <<>>
            THEN << Join(<<" ">>, path_lines) >> ELSE <<>>
        graph_citations ==
            IF graph_response = <<>> THEN <<>>
            ELSE Urls(Flat([i \in 1..Len(g.paths) |-> g.paths[i].evidence]))
                 \o Urls([i \in 1..Len(g.subgraph.edges) |-> g.subgraph.edges[i].evidence])
        parts == vision_parts \o graph_parts \o evidence_parts
    IN  [answer |-> IF parts # <<>> THEN Join(<<" ">>, parts)
                    ELSE <<"N", "o", " ", "t", "r", "a", "v", "e", "l", " ", "e", "v", "i", "d", "e", "n", "c", "e", " ", "f", "o", "u", "n", "d", " ", "f", "o", "r", " ", "y", "o", "u", "r", " ", "q", "u", "e", "r", "y", ".">>,
         citations |-> graph_citations \o evidence_citations]

\* _build_answer_and_citations(evidence, graph_response, vision_response,
\* trip_context); an optional value is <<>> or <<value>>, a missing string is
\* <<>>, suitability_ok is "True", "False" or "None", a confidence is in
\* tenths, and the evidence of a path or an edge is given by its timestampUrl.
_build_answer_and_citations(evidence, graph_response, vision_response) ==
    LET Take(xs, n) == SubSeq(xs, 1, IF Len(xs) < n THEN Len(xs) ELSE n)
        Urls(xs) == SelectSeq(xs, LAMBDA u : u # <<>>)
        RECURSIVE Flat(_)
        Flat(xss) == IF xss = <<>> THEN <<>> ELSE Head(xss) \o Flat(Tail(xss))
        sig == vision_response[1].signals
        packing ==
            (IF sig.suitability_ok = "True" THEN << <<"T", "h", "i", "s", " ", "o", "u", "t", "f", "i", "t", " ", "l", "o", "o", "k", "s", " ", "s", "u", "i", "t", "a", "b", "l", "e", " ", "f", "o", "r", " ", "y", "o", "u", "r", " ", "t", "r", "i", "p", ".">> >>
             ELSE IF sig.suitability_ok = "False" /\ sig.suitability_issue # <<>>
             THEN << <<"T", "h", "i", "s", " ", "o", "u", "t", "f", "i", "t", " ", "m", "a", "y", " ", "n", "o", "t", " ", "b", "e", " ", "i", "d", "e", "a", "l", ":", " ">> \o sig.suitability_issue >>
             ELSE <<>>)
            \o (IF sig.detected_items # <<>>
                THEN << <<"D", "e", "t", "e", "c", "t", "e", "d", ":", " ">> \o Join(<<",", " ">>, Take(sig.detected_items, 8)) \o <<".">> >>
                ELSE <<>>)
            \o (IF sig.suggested_categories_for_products # <<>>
                THEN << <<"C", "o", "n", "s", "i", "d", "e", "r", " ", "a", "d", "d", "i", "n", "g", ":", " ">>
                        \o Join(<<",", " ">>, Take(sig.suggested_categories_for_products, 5)) \o <<".">> >>
                ELSE IF sig.missing_categories # <<>>
                THEN << <<"C", "o", "n", "s", "i", "d", "e", "r", " ", "a", "d", "d", "i", "n", "g", " ", "f", "o", "r", " ", "y", "o", "u", "r", " ", "t", "r", "i", "p", ":", " ">>
                        \o Join(<<",", " ">>, Take(sig.missing_categories, 5)) \o <<".">> >>
                ELSE <<>>)
            \o (IF sig.detected_items = <<>> /\ sig.missing_categories = <<>>
                   /\ sig.suitability_ok = "None"
                THEN << <<"C", "o", "u", "l", "d", " ", "n", "o", "t", " ", "c", "l", "e", "a", "r", "l", "y", " ", "d", "e", "t", "e", "c", "t", " ", "t", "r", "a", "v", "e", "l", " ", "i", "t", "e", "m", "s", ".", " ", "P", "a", "c", "k", " ", "a", "c", "c", "o", "r", "d", "i", "n", "g", " ", "t", "o", " ", "y", "o", "u", "r", " ", "t", "r", "i", "p", " ", "c", "o", "n", "t", "e", "x", "t", ".">> >>
                ELSE <<>>)
        scene == IF sig.scene_type # <<>> THEN sig.scene_type ELSE <<"p", "l", "a", "c", "e">>
        landmark ==
            IF sig.place_candidates # <<>>
            THEN LET top == sig.place_candidates[1]
                 IN  IF top.confidence >= 6
                     THEN << <<"P", "a", "r", "e", "c", "e", " ", "s", "e", "r", " ">> \o top.place_name
                             \o <<".", " ", "Q", "u", "e", "r", " ", "d", "i", "c", "a", "s", " ", "d", "o", " ", "q", "u", "e", " ", "f", "a", "z", "e", "r", " ", "p", "o", "r", " ", "p", "e", "r", "t", "o", "?">> >>
                     ELSE << <<"P", "o", "s", "s", "í", "v", "e", "l", "m", "e", "n", "t", "e", " ">> \o top.place_name \o <<" ", "o", "u", " ", "l", "o", "c", "a", "l", " ", "s", "i", "m", "i", "l", "a", "r", " ", "(">>
                             \o scene \o <<")", ".", " ", "Q", "u", "e", "r", " ", "q", "u", "e", " ", "e", "u", " ", "s", "u", "g", "i", "r", "a", " ", "o", " ", "q", "u", "e", " ", "f", "a", "z", "e", "r", " ", "p", "o", "r", " ", "p", "e", "r", "t", "o", "?">> >>
            ELSE << <<"P", "a", "r", "e", "c", "e", " ", "u", "m", " ", "l", "o", "c", "a", "l", " ", "d", "o", " ", "t", "i", "p", "o", " ">> \o scene
                    \o <<".", " ", "Q", "u", "e", "r", " ", "d", "i", "c", "a", "s", " ", "d", "o", " ", "q", "u", "e", " ", "f", "a", "z", "e", "r", " ", "p", "o", "r", " ", "p", "e", "r", "t", "o", "?">> >>
        similarity ==
            LET cat == IF sig.category # <<>> THEN sig.category ELSE <<"i", "t", "e", "m">>
                attrs == Take(sig.attributes, 3)
                desc_parts ==
                    << cat >>
                    \o (IF sig.attributes # <<>>
                        THEN << Join(<<",", " ">>, [i \in 1..Len(attrs) |->
                                               attrs[i][1] \o <<":", " ">> \o attrs[i][2]]) >>
                        ELSE <<>>)
                    \o (IF sig.style_keywords # <<>>
                        THEN << <<"s", "t", "y", "l", "e", ":", " ">> \o Join(<<",", " ">>, Take(sig.style_keywords, 3)) >>
                        ELSE <<>>)
            IN  << <<"P", "r", "o", "d", "u", "t", "o", "s", " ", "s", "i", "m", "i", "l", "a", "r", "e", "s", ":", " ">> \o Join(<<";", " ">>, desc_parts) \o <<".">> >>
        vision_parts ==
            IF vision_response = <<>> THEN <<>>
            ELSE IF sig.mode = "packing" THEN packing
            ELSE IF sig.mode = "landmark" THEN landmark
            ELSE IF sig.mode = "product_similarity" THEN similarity
            ELSE <<>>
        evidence_parts ==
            IF evidence # <<>>
            THEN << Join(<<" ">>, [i \in 1..Len(evidence) |-> evidence[i].summary]) >>
            ELSE <<>>
        evidence_citations == Urls([i \in 1..Len(evidence) |-> evidence[i].source_url])
        g == graph_response[1]
        name_of(nid) ==
            IF \E i \in 1..Len(g.subgraph.nodes) : g.subgraph.nodes[i].id = nid
            THEN LET i == CHOOSE k \in 1..Len(g.subgraph.nodes) :
                              /\ g.subgraph.nodes[k].id = nid
                              /\ \A m \in (k + 1)..Len(g.subgraph.nodes) :
                                    g.subgraph.nodes[m].id # nid
                 IN  g.subgraph.nodes[i].name
            ELSE nid
        line(pt) ==
            LET label == IF pt.label # <<>> THEN pt.label
                         ELSE IF pt.path_id # <<>> THEN pt.path_id ELSE <<"I", "t", "i", "n", "e", "r", "a", "r", "y">>
                names == [i \in 1..Len(pt.nodes) |-> name_of(pt.nodes[i])]
            IN  IF names # <<>> THEN label \o <<":", " ">> \o Join(<<",", " ">>, names) ELSE label
        shown == Take(g.paths, 3)
        path_lines == [i \in 1..Len(shown) |-> line(shown[i])]
        graph_parts ==
            IF graph_response # <<>> /\ path_lines # <<>>
            THEN << Join(<<" ">>, path_lines) >> ELSE <<>>
        graph_citations ==
            IF graph_response = <<>> THEN <<>>
            ELSE Urls(Flat([i \in 1..Len(g.paths) |-> g.paths[i].evidence]))
                 \o Urls([i \in 1..Len(g.subgraph.edges) |-> g.subgraph.edges[i].evidence])
        parts == vision_parts \o evidence_parts \o graph_parts
    IN  [answer |-> IF parts # <<>> THEN Join(<<" ">>, parts)
                    ELSE <<"N", "o", " ", "t", "r", "a", "v", "e", "l", " ", "e", "v", "i", "d", "e", "n", "c", "e", " ", "f", "o", "u", "n", "d", " ", "f", "o", "r", " ", "y", "o", "u", "r", " ", "q", "u", "e", "r", "y", ".">>,
         citations |-> evidence_citations \o graph_citations]

\* Evidence items: summaries E1, E2, E3; the second has no source_url.
EvidenceSamples ==
    { <<>>,
      << [summary |-> <<"E", "1">>, source_url |-> <<"u", "1">>] >>,
      << [summary |-> <<"E", "1">>, source_url |-> <<"u", "1">>],
         [summary |-> <<"E", "2">>, source_url |-> <<>>],
         [summary |-> <<"E", "3">>, source_url |-> <<"u", "3">>] >> }

GraphPath(label, nodes, evidence) ==
    [label |-> label, path_id |-> <<>>, nodes |-> nodes, evidence |-> evidence]

\* Graph payloads: none; one path over two named nodes with an evidence link
\* and a linked edge; no path and a linked edge; four paths (three are
\* shown) with a link on the second and the fourth.
GraphSamples ==
    { <<>>,
      << [subgraph |-> [nodes |-> << [id |-> <<"n", "1">>, name |-> <<"n", "1", "a">>], [id |-> <<"n", "2">>, name |-> <<"n", "2", "a">>] >>,
                        edges |-> << [evidence |-> <<"g", "1">>], [evidence |-> <<>>] >>],
          paths |-> << GraphPath(<<"L", "1">>, << <<"n", "1">>, <<"n", "2">>, <<"n", "3">> >>, << <<"t", "1">>, <<>>, <<"t", "2">> >>) >>] >>,
      << [subgraph |-> [nodes |-> <<>>, edges |-> << [evidence |-> <<"g", "1">>] >>],
          paths |-> <<>>] >>,
      << [subgraph |-> [nodes |-> <<>>, edges |-> << [evidence |-> <<"g", "1">>], [evidence |-> <<"g", "2">>] >>],
          paths |-> << GraphPath(<<"L", "1">>, <<>>, <<>>), GraphPath(<<"L", "2">>, << <<"n", "1">> >>, << <<"t", "1">> >>),
                       GraphPath(<<"L", "3">>, <<>>, <<>>), GraphPath(<<"L", "4">>, <<>>, << <<"t", "2">> >>) >>] >> }

Signals(mode) ==
    [mode |-> mode, detected_items |-> <<>>, missing_categories |-> <<>>,
     suitability_ok |-> "None", suitability_issue |-> <<>>,
     suggested_categories_for_products |-> <<>>, place_candidates |-> <<>>,
     scene_type |-> <<>>, category |-> <<>>, attributes |-> <<>>,
     style_keywords |-> <<>>]

\* Vision payloads, each with whether it gives the answer a prefix.
VisionSamples ==
    { [response |-> <<>>, prefix |-> FALSE],
      [response |-> << [signals |-> Signals("packing")] >>, prefix |-> TRUE],
      [response |-> << [signals |-> [Signals("packing") EXCEPT
                          !.suitability_ok = "True", !.detected_items = << <<"h", "a", "t">>, <<"c", "o", "a", "t">> >>,
                          !.missing_categories = << <<"u", "m", "b", "r", "e", "l", "l", "a">> >>]] >>, prefix |-> TRUE],
      [response |-> << [signals |-> [Signals("packing") EXCEPT
                          !.suitability_ok = "False"]] >>, prefix |-> FALSE],
      [response |-> << [signals |-> [Signals("packing") EXCEPT
                          !.suitability_ok = "False", !.suitability_issue = <<"t", "o", "o", " ", "c", "o", "l", "d">>,
                          !.suggested_categories_for_products = << <<"c", "o", "a", "t">> >>]] >>, prefix |-> TRUE],
      [response |-> << [signals |-> [Signals("landmark") EXCEPT
                          !.place_candidates = << [place_name |-> <<"c", "a", "s", "t", "l", "e">>, confidence |-> 7] >>]] >>,
       prefix |-> TRUE],
      [response |-> << [signals |-> [Signals("landmark") EXCEPT
                          !.place_candidates = << [place_name |-> <<"c", "a", "s", "t", "l", "e">>, confidence |-> 5] >>,
                          !.scene_type = <<"p", "a", "r", "k">>]] >>, prefix |-> TRUE],
      [response |-> << [signals |-> Signals("landmark")] >>, prefix |-> TRUE],
      [response |-> << [signals |-> [Signals("product_similarity") EXCEPT
                          !.category = <<"b", "a", "g">>, !.attributes = << << <<"c", "o", "l", "o", "r">>, <<"r", "e", "d">> >> >>,
                          !.style_keywords = << <<"b", "o", "h", "o">> >>]] >>, prefix |-> TRUE] }

\* _build_answer_and_citations called directly
CallBuildAnswerAndCitations ==
    /\ fcall.fn = "none"
    /\ \E ev \in EvidenceSamples, gr \in GraphSamples, vi \in VisionSamples :
         LET r == _build_answer_and_citations(ev, gr, vi.response)
         IN  fcall' = [fn |-> "_build_answer_and_citations", evidence |-> ev,
                       graph_response |-> gr, vision_response |-> vi.response,
                       prefix |-> vi.prefix, answer |-> r.answer,
                       citations |-> r.citations]
    /\ UNCHANGED <<hcall, ingestionVars, orchVars, cacheVars, _STORE>>

\* merge_graph(extractions) of ingestion/app/sources/graph.py.  A node is
\* [id, aliases, properties], an edge [type, source, target, startSec, endSec,
\* chunkIdx]; an id or an alias is given by its rank in the order of strings,
\* properties are a dict.  node_map is kept in insertion order and read out
\* by sorted key.
merge_graph(extractions) ==
    LET RECURSIVE Sorted(_)
        Sorted(S) == IF S = {} THEN <<>>
                     ELSE LET m == CHOOSE x \in S : \A y \in S : x <= y
                          IN  <<m>> \o Sorted(S \ {m})
        Range(xs) == { xs[i] : i \in 1..Len(xs) }
        Key(e) == <<e.type, e.source, e.target, e.startSec, e.endSec>>
        RECURSIVE AddProps(_, _)
        AddProps(d, kvs) ==
            IF kvs = <<>> THEN d
            ELSE AddProps(IF \E i \in 1..Len(d) : d[i][1] = Head(kvs)[1]
                          THEN d ELSE Append(d, Head(kvs)),
                          Tail(kvs))
        AddNode(node_map, n) ==
            IF \A i \in 1..Len(node_map) : node_map[i].id # n.id
            THEN Append(node_map, n)
            ELSE [i \in 1..Len(node_map) |->
                    IF node_map[i].id = n.id
                    THEN [id |-> n.id,
                          aliases |-> Sorted(Range(node_map[i].aliases) \cup Range(n.aliases)),
                          properties |-> AddProps(node_map[i].properties, n.properties)]
                    ELSE node_map[i]]
        AddEdge(edges_out, e) ==
            IF \E i \in 1..Len(edges_out) : Key(edges_out[i]) = Key(e)
            THEN edges_out ELSE Append(edges_out, e)
        RECURSIVE Fold(_, _, _)
        Fold(op(_, _), acc, xs) ==
            IF xs = <<>> THEN acc ELSE Fold(op, op(acc, Head(xs)), Tail(xs))
        RECURSIVE Over(_, _)
        Over(st, exs) ==
            IF exs = <<>> THEN st
            ELSE Over([node_map |-> Fold(AddNode, st.node_map, Head(exs).nodes),
                       edges_out |-> Fold(AddEdge, st.edges_out, Head(exs).edges)],
                      Tail(exs))
        end == Over([node_map |-> <<>>, edges_out |-> <<>>], extractions)
        ids == Sorted({ end.node_map[i].id : i \in 1..Len(end.node_map) })
    IN  [nodes |-> [k \in 1..Len(ids) |->
                      end.node_map[CHOOSE i \in 1..Len(end.node_map) :
                                       end.node_map[i].id = ids[k]]],
         edges |-> end.edges_out]

\* Chunk extractions: node 2 occurs in the first two with different aliases
\* and a property key of different values, the second repeats an edge of
\* the first with another chunk index, and node 3 of the third occurs once,
\* with one alias given twice.
ExtractionSamples ==
    LET N(id, aliases, properties) ==
            [id |-> id, aliases |-> aliases, properties |-> properties]
        E(source, target, startSec, endSec, chunkIdx) ==
            [type |-> "IN_AREA", source |-> source, target |-> target,
             startSec |-> startSec, endSec |-> endSec, chunkIdx |-> chunkIdx]
    IN  { [nodes |-> << N(2, <<2, 1>>, << <<"k", 1>> >>) >>,
           edges |-> << E(2, 1, 0, 30, 1) >>],
          [nodes |-> << N(2, <<3>>, << <<"k", 2>>, <<"j", 5>> >>), N(1, <<>>, <<>>) >>,
           edges |-> << E(2, 1, 0, 30, 2), E(2, 1, 30, 60, 2) >>],
          [nodes |-> << N(3, <<2, 2>>, <<>>) >>, edges |-> <<>>] }

MaxExtractions == 3

\* merge_graph called directly, on a list and on the list followed by itself
CallMergeGraph ==
    /\ fcall.fn = "none"
    /\ \E n \in 0..MaxExtractions :
         \E exs \in [1..n -> ExtractionSamples] :
             fcall' = [fn |-> "merge_graph", extractions |-> exs,
                       out |-> merge_graph(exs), twice |-> merge_graph(exs \o exs)]
    /\ UNCHANGED <<hcall, ingestionVars, orchVars, cacheVars, _STORE>>

\* The 18-item travel category set of mcp-travel-vision/app/models.py
TRAVEL_ITEM_CATEGORIES ==
    { <<"l", "i", "g", "h", "t", "_", "t", "o", "p">>,
      <<"w", "a", "r", "m", "_", "t", "o", "p">>,
      <<"i", "n", "s", "u", "l", "a", "t", "e", "d", "_", "j", "a", "c", "k", "e", "t">>,
      <<"r", "a", "i", "n", "_", "j", "a", "c", "k", "e", "t">>,
      <<"l", "o", "n", "g", "_", "p", "a", "n", "t", "s">>,
      <<"s", "h", "o", "r", "t", "s", "_", "o", "r", "_", "s", "k", "i", "r", "t">>,
      <<"w", "a", "l", "k", "i", "n", "g", "_", "s", "h", "o", "e", "s">>,
      <<"s", "a", "n", "d", "a", "l", "s">>,
      <<"w", "e", "a", "t", "h", "e", "r", "_", "p", "r", "o", "o", "f", "_", "s", "h", "o", "e", "s">>,
      <<"s", "u", "n", "_", "p", "r", "o", "t", "e", "c", "t", "i", "o", "n">>,
      <<"c", "o", "l", "d", "_", "a", "c", "c", "e", "s", "s", "o", "r", "y">>,
      <<"u", "m", "b", "r", "e", "l", "l", "a">>,
      <<"d", "a", "y", "_", "b", "a", "g">>,
      <<"t", "r", "a", "v", "e", "l", "_", "b", "a", "g", "_", "o", "r", "g", "a", "n", "i", "z", "e", "r">>,
      <<"p", "o", "w", "e", "r", "_", "a", "d", "a", "p", "t", "e", "r">>,
      <<"p", "o", "r", "t", "a", "b", "l", "e", "_", "c", "h", "a", "r", "g", "e", "r">>,
      <<"w", "a", "t", "e", "r", "_", "b", "o", "t", "t", "l", "e">>,
      <<"t", "r", "a", "v", "e", "l", "_", "c", "o", "m", "f", "o", "r", "t", "_", "i", "t", "e", "m">> }

\* analyze_image(request) of mcp-travel-vision/app/vision.py with
\* _mock_signals and the three parsers.  client says how the model call
\* ends: "none" (no client: mock signals), "raises", "undecodable" (text
\* that holds no JSON object) or "json" (raw is the object decoded).  Of raw:
\* confidence is <<tenths>> or <<>> (absent or not a number); a list field is
\* <<list>> or <<>> (absent or not a list); category is <<text>> or <<>>.
\* Of the signals: confidence in tenths; error, category and a place
\* candidate's confidence are <<>> (None) or <<value>>.
analyze_image(mode, client, raw) ==
    LET Signals_(conf, error, detected, missing, suggested, places, category) ==
            [mode |-> mode, confidence |-> conf, error |-> error,
             detected_items |-> detected, missing_categories |-> missing,
             suggested_categories_for_products |-> suggested,
             place_candidates |-> places, category |-> category]
        Failed(msg) == Signals_(0, <<msg>>, <<>>, <<>>, <<>>, <<>>, <<>>)
        _mock_signals ==
            IF mode = "packing"
            THEN Signals_(9, <<>>, << <<"l", "i", "g", "h", "t", "_", "t", "o", "p">>, <<"l", "o", "n", "g", "_", "p", "a", "n", "t", "s">>, <<"w", "a", "l", "k", "i", "n", "g", "_", "s", "h", "o", "e", "s">> >>,
                               << <<"r", "a", "i", "n", "_", "j", "a", "c", "k", "e", "t">> >>, << <<"r", "a", "i", "n", "_", "j", "a", "c", "k", "e", "t">>, <<"u", "m", "b", "r", "e", "l", "l", "a">> >>, <<>>, <<>>)
            ELSE IF mode = "landmark"
            THEN Signals_(8, <<>>, <<>>, <<>>, <<>>,
                               << [place_name |-> <<"E", "i", "f", "f", "e", "l", " ", "T", "o", "w", "e", "r">>, confidence |-> <<9>>] >>, <<>>)
            ELSE Signals_(8, <<>>, <<>>, <<>>, <<>>, <<>>, << <<"d", "a", "y", "_", "b", "a", "g">> >>)
        conf == IF raw.confidence = <<>> THEN 5
                ELSE LET c == raw.confidence[1]
                         capped == IF c > 10 THEN 10 ELSE c
                     IN  IF capped < 0 THEN 0 ELSE capped
        Allowed(field) ==
            IF field = <<>> THEN <<>>
            ELSE LET stripped == [i \in 1..Len(field[1]) |-> strip(field[1][i])]
                 IN  SelectSeq(stripped, LAMBDA x : x \in TRAVEL_ITEM_CATEGORIES)
        _parse_packing ==
            Signals_(conf, <<>>, Allowed(raw.detected_items),
                          Allowed(raw.missing_categories),
                          Allowed(raw.suggested_categories_for_products), <<>>, <<>>)
        given == IF raw.place_candidates = <<>> THEN <<>> ELSE raw.place_candidates[1]
        first3 == SubSeq(given, 1, IF Len(given) < 3 THEN Len(given) ELSE 3)
        named == SelectSeq(first3, LAMBDA c : c.place_name # <<>>)
        \* PlaceCandidate(confidence=...) is validated: ge=0.0, le=1.0
        rejected == \E i \in 1..Len(named) :
                        /\ named[i].confidence # <<>>
                        /\ named[i].confidence[1] \notin 0..10
        _parse_landmark ==
            Signals_(conf, <<>>, <<>>, <<>>, <<>>,
                          [i \in 1..Len(named) |->
                              [place_name |-> strip(named[i].place_name),
                               confidence |-> named[i].confidence]],
                          <<>>)
        category ==
            IF raw.category # <<>> /\ raw.category[1] # <<>>
               /\ strip(raw.category[1]) \notin TRAVEL_ITEM_CATEGORIES
            THEN <<>>
            ELSE IF raw.category # <<>> /\ raw.category[1] # <<>>
            THEN << strip(raw.category[1]) >>
            ELSE raw.category
        _parse_product_similarity ==
            Signals_(conf, <<>>, <<>>, <<>>, <<>>, <<>>, category)
    IN  IF client = "none" THEN _mock_signals
        ELSE IF client = "raises" THEN Failed(<<"t", "i", "m", "e", "o", "u", "t">>)
        ELSE IF client = "undecodable" THEN Failed(<<"F", "a", "i", "l", "e", "d", " ", "t", "o", " ", "p", "a", "r", "s", "e", " ", "m", "o", "d", "e", "l", " ", "J", "S", "O", "N">>)
        ELSE IF mode = "packing" THEN _parse_packing
        ELSE IF mode = "landmark"
        THEN (IF rejected THEN Failed(<<"v", "a", "l", "i", "d", "a", "t", "i", "o", "n", " ", "e", "r", "r", "o", "r">>) ELSE _parse_landmark)
        ELSE _parse_product_similarity

\* Objects the vision model can answer with
RawSamples ==
    LET Raw(confidence, detected, missing, suggested, places, category) ==
            [confidence |-> confidence, detected_items |-> detected,
             missing_categories |-> missing,
             suggested_categories_for_products |-> suggested,
             place_candidates |-> places, category |-> category]
        P(name, confidence) == [place_name |-> name, confidence |-> confidence]
    IN  { Raw(<<8>>, << << <<"l", "i", "g", "h", "t", "_", "t", "o", "p">>, <<" ", "w", "a", "l", "k", "i", "n", "g", "_", "s", "h", "o", "e", "s", " ">>, <<"i", "n", "v", "a", "l", "i", "d", "_", "i", "t", "e", "m">> >> >>,
              << << <<"r", "a", "i", "n", "_", "j", "a", "c", "k", "e", "t">> >> >>, << << <<"w", "a", "r", "m", "_", "t", "o", "p">>, <<"i", "n", "v", "a", "l", "i", "d", "_", "c", "a", "t">> >> >>,
              << << P(<<"a">>, <<9>>), P(<<>>, <<>>), P(<<"b">>, <<>>), P(<<"c">>, <<5>>), P(<<"d">>, <<5>>) >> >>,
              << <<"d", "a", "y", "_", "b", "a", "g">> >>),
          Raw(<<15>>, <<>>, <<>>, <<>>, << << P(<<"a">>, <<15>>) >> >>, << <<"i", "n", "v", "a", "l", "i", "d", "_", "c", "a", "t">> >>),
          Raw(<<-3>>, << <<>> >>, <<>>, <<>>, <<>>, << <<" ", "u", "m", "b", "r", "e", "l", "l", "a">> >>),
          Raw(<<>>, <<>>, <<>>, <<>>, << << P(<<"a">>, <<1>>), P(<<"b">>, <<2>>), P(<<"c">>, <<3>>), P(<<"d">>, <<4>>) >> >>,
              << <<>> >>),
          Raw(<<5>>, <<>>, << << <<"u", "m", "b", "r", "e", "l", "l", "a">> >> >>, <<>>, <<>>, <<>>) }

\* vision.analyze_image called directly
CallAnalyzeImage ==
    /\ fcall.fn = "none"
    /\ \E mode \in {"packing", "landmark", "product_similarity"},
          client \in {"none", "raises", "undecodable", "json"}, raw \in RawSamples :
         fcall' = [fn |-> "analyze_image", mode |-> mode, client |-> client,
                   raw |-> raw, signals |-> analyze_image(mode, client, raw)]
    /\ UNCHANGED <<hcall, ingestionVars, orchVars, cacheVars, _STORE>>

\* The queries update() is called with, each with the step the memory is to
\* keep for it: the text without the blanks around it, cut to 200 characters.
MemorySamples ==
    { [user_query |-> <<" ", "b">>, intent |-> <<"b">>],
      [user_query |-> <<"c", "h", "e", "a", "p", " ", "b">>, intent |-> <<"c", "h", "e", "a", "p", " ", "b">>],
      [user_query |-> <<"l", "u", "x", "u", "r", "y">>, intent |-> <<"l", "u", "x", "u", "r", "y">>],
      [user_query |-> <<"m", "u", "s", "t", " ", " ", "s", "e", "e", " ", "b">>, intent |-> <<"m", "u", "s", "t", " ", " ", "s", "e", "e", " ", "b">>],
      [user_query |-> [i \in 1..201 |-> "x"], intent |-> [i \in 1..200 |-> "x"]],
      [user_query |-> <<" ", " ">> \o [i \in 1..200 |-> "y"] \o <<"z", " ">>,
       intent |-> [i \in 1..200 |-> "y"]],
      [user_query |-> [i \in 1..200 |-> "w"], intent |-> [i \in 1..200 |-> "w"]] }

\* update(session_id, user_query) called directly, any number of times
CallUpdate ==
    /\ fcall.fn \in {"none", "update"}
    /\ \E x \in MemorySamples :
         /\ _STORE' = update(_STORE, x.user_query)
         /\ fcall' = [fn |-> "update", user_query |-> x.user_query,
                       intent |-> x.intent, before |-> _STORE.recent_plan_steps]
    /\ UNCHANGED <<hcall, ingestionVars, orchVars, cacheVars>>

\* The graph service's answer when it has no Neo4j driver: the subgraph of
\* get_subgraph_mock (one node, one edge with its evidence link) and the paths
\* compute_paths finds in it, which are none as it has no itinerary node.
get_subgraph_mock ==
    [subgraph |-> [nodes |-> << [id |-> <<"p", "o", "i", ":", "m", "o", "c", "k", "_", "p", "o", "i">>, name |-> <<"M", "o", "c", "k", " ", "P", "O", "I">>] >>,
                   edges |-> << [evidence |-> <<"h", "t", "t", "p", "s", ":", "/", "/", "e", "x", "a", "m", "p", "l", "e", ".", "c", "o", "m", "/", "w", "a", "t", "c", "h", "?", "v", "=", "m", "o", "c", "k", "&", "t", "=", "0">>] >>],
     paths |-> <<>>]

\* One turn of ws_endpoint whose graph call was answered with the mock
\* subgraph: the answer is built of the evidence (none, one item without or
\* one with a source_url) and that graph payload, then passed to
\* validate_and_fix.
CallAnswerWithMockSubgraph ==
    /\ fcall.fn = "none"
    /\ \E a \in AnswerSamples, given \in {"none", "unsourced", "sourced"} :
         LET evidence ==
                 IF given = "none" THEN <<>>
                 ELSE << [summary |-> a.text,
                          source_url |-> IF given = "sourced" THEN <<"u", "1">> ELSE <<>>] >>
             built == _build_answer_and_citations(evidence, << get_subgraph_mock >>, <<>>)
             response == [session_id |-> "s1", request_id |-> "r1",
                          answer_text |-> built.answer, citations |-> built.citations,
                          addon |-> <<>>]
         IN  fcall' = [fn |-> "answer_with_mock_subgraph", evidence |-> evidence,
                       factual |-> (given # "none" /\ a.factual),
                       response |-> response,
                       out |-> validate_and_fix(response, <<"o", "i">>).out]
    /\ UNCHANGED <<hcall, ingestionVars, orchVars, cacheVars, _STORE>>

\* The values the callers of build_cache_key pass for user_query (or
\* query_signature), destination and lang
KeyParts ==
    { <<q, dest, lang>> :
        q \in { <<"a", "|", "b">>, <<"a", "|", "|", "b">>, <<"a">>, <<" ", "A", " ">>, <<>> },
        dest \in { NoneStr, <<>>, <<"b", "|">>, <<"b", "|", "|">>, <<"b">> },
        lang \in { NoneStr, <<"p", "t">> } }

\* build_cache_key called directly for two requests: the graph service's
\* (user_query, destination, lang) or the products service's
\* (query_signature, market, destination, lang) with market None
CallBuildCacheKey ==
    /\ fcall.fn = "none"
    /\ \E svc \in {"graph", "products"}, a \in KeyParts, b \in KeyParts :
         LET Args(p) == IF svc = "graph" THEN p ELSE <<p[1], NoneStr, p[2], p[3]>>
         IN  fcall' = [fn |-> "build_cache_key", svc |-> svc,
                       a |-> Args(a), b |-> Args(b),
                       key_a |-> build_cache_key(Args(a)),
                       key_b |-> build_cache_key(Args(b))]
    /\ UNCHANGED <<hcall, ingestionVars, orchVars, cacheVars, _STORE>>

NextFunctions ==
    \/ CallValidateAndFix
    \/ CallUpdate
    \/ CallBuildAnswerAndCitations
    \/ CallMergeGraph
    \/ CallAnalyzeImage
    \/ CallBuildCacheKey
    \/ CallAnswerWithMockSubgraph

SpecFunctions == InitDlq /\ [][NextFunctions]_vars

----------------------------------------------------------------------------
(* Properties of the worker and the stage handlers *)

\* The stage a handler's successor event carries.
SuccessorStage(stage) ==
    CASE stage = "requested" -> "transcript"
      [] stage = "transcript" -> "chunks"
      [] stage = "chunks" -> "enrichment"
      [] stage = "enrichment" -> "embeddings"
      [] stage = "embeddings" -> "write_complete"
      [] OTHER -> "None"

SuccessorStages == {"transcript", "chunks", "enrichment", "embeddings", "write_complete"}

\* Number of recorded writes for a content source.
WritesFor(cs) ==
    Cardinality({i \in 1..Len(writeEvents) : writeEvents[i].content_source_id = cs})

\* Number of successor events the handlers returned for <<cs, stage>>.
EmittedFor(cs, stage) == CopiesIn(<<cs, stage>>, emitted)

\* C1 (as stated): once an event has been delivered to its stage handler and
\* the handler has returned, however often, exactly one successor event
\* exists for it, and for a write_complete event exactly one write is recorded.
C1_ExactlyOneSuccessor ==
    (last.body # None /\ last.why # "raised") =>
        IF last.body.stage = "write_complete"
        THEN WritesFor(last.body.content_source_id) = 1
        ELSE EmittedFor(last.body.content_source_id, SuccessorStage(last.body.stage)) = 1

\* C1 (amended): for every content source and stage at most one successor
\* event is ever returned, and exactly one iff the stage's key is marked
\* processed (some delivery's work succeeded); a delivery that finds the key
\* marked returns no-advance; at most one write is recorded per content
\* source, exactly one iff the write key is marked.
C1_AtMostOneSuccessor ==
    /\ \A cs \in ContentSources :
        /\ \A st \in SuccessorStages :
            /\ EmittedFor(cs, st) <= 1
            /\ EmittedFor(cs, st) = 1 <=> already_processed(processed, build_idempotency_key(cs, st))
        /\ WritesFor(cs) <= 1
        /\ WritesFor(cs) = 1 <=> already_processed(processed, build_idempotency_key(cs, "write"))
    /\ last.why = "duplicate" => last.sent # "next"

\* A write_complete event was delivered again after its write: the second
\* delivery returned without writing.
C1_Witness ==
    /\ last.why = "duplicate"
    /\ last.body.stage = "write_complete"
    /\ WritesFor(last.body.content_source_id) = 1

\* C2 (as stated): every failure of a stage re-enqueues the event with
\* retry_count + 1 while that is below max_retries, and otherwise puts it in
\* the DLQ; DLQ entries carry retry_count = max_retries.
C2_RetryThenDlq ==
    /\ (last.why \in {"failed", "raised"} /\ last.sqsError = "none") =>
          IF last.body.retry_count + 1 < last.body.max_retries
          THEN last.sent = "retry"
          ELSE last.sent = "dlq"
    /\ \A d \in BagToSet(dlqQueue) : d.retry_count = d.max_retries

\* C3 (as stated): process_one_message deletes the message on every outcome
\* of the stage, a raising handler or a raising send included.
C3_AlwaysDeleted ==
    (last.body # None /\ last.sqsError # "delete") => last.deleted

\* C4 (as stated): an acknowledged message has had exactly one of: successor
\* enqueued, retry enqueued, DLQ enqueued, pipeline complete.
C4_NeverDropped ==
    last.deleted => ((last.sent \in {"next", "retry", "dlq"}) # last.done)

\* C5 (as stated): a retry or DLQ send happens only after a failed attempt; a
\* no-advance for an already processed key is acknowledged without either.
C5_DuplicateNotRetried ==
    /\ last.sent \in {"retry", "dlq"} => last.why = "failed"
    /\ (last.why = "duplicate" /\ ~last.done /\ last.sqsError = "none") =>
          (last.deleted /\ last.sent = "none")

\* C7 (as stated): a stage handler never raises.
C7_HandlerNeverRaises == last.why # "raised"

\* C8: a step in which the handler returned no-advance for a failure leaves
\* the idempotency set and the recorded writes unchanged.
C8_FailureLeavesNoMark ==
    [][(last' # last /\ last'.why = "failed") =>
          (processed' = processed /\ writeEvents' = writeEvents)]_vars

\* A failed fetch was re-enqueued for retry and its key is still unmarked.
C8_Witness ==
    /\ last.why = "failed"
    /\ last.sent = "retry"
    /\ ~already_processed(processed,
            build_idempotency_key(last.body.content_source_id,
                                  SuccessorStage(last.body.stage)))

\* C6 (as stated): with several workers on duplicate deliveries, at most one
\* successor event per content source and stage, and at most one write per
\* content source.
C6_AtMostOneWinner ==
    \A cs \in ContentSources :
        /\ \A st \in SuccessorStages : EmittedFor(cs, st) <= 1
        /\ WritesFor(cs) <= 1

\* C9: a replay appends the DLQ's entries, unchanged and in DLQ order, after
\* the entries of the requeue list, empties the DLQ and returns their number.
C9_ReplayFifo ==
    [][(dlqOp' # dlqOp /\ dlqOp'.op = "replay_dlq_to_requeue") =>
          /\ requeue' = requeue \o DLQ
          /\ DLQ' = <<>>
          /\ dlqOp'.ret = Len(DLQ)]_vars

\* A replay has moved two or more events behind entries already requeued.
C9_Witness ==
    /\ dlqOp.op = "replay_dlq_to_requeue"
    /\ dlqOp.ret >= 2
    /\ Len(requeue) > dlqOp.ret
    /\ DLQ = <<>>

\* C10 (as stated): every DLQ entry has an error and retry_count equal to its
\* max_retries.
C10_DlqEntriesAtMaxRetries ==
    \A i \in 1..Len(DLQ) :
        /\ DLQ[i].error # NoError
        /\ DLQ[i].retry_count = DLQ[i].max_retries

\* C11 (as stated): a youtube_kg request that reaches handle_fetch's routing
\* yields a transcript event that keeps source_type youtube_kg, and a
\* handle_write that marks a youtube_kg write has invoked the graph-store
\* ingest.
C11_YoutubeKgRouted ==
    hcall.event.payload.source_type = "youtube_kg" =>
        /\ (hcall.handler = "handle_fetch" /\ hcall.why \notin {"duplicate", "raised"}) =>
              (hcall.why = "emitted" /\ hcall.out.payload.source_type = "youtube_kg")
        /\ (hcall.handler = "handle_write" /\ hcall.why = "written") =>
              hcall.store = "ingest_into_neo4j"

----------------------------------------------------------------------------
(* Properties of the orchestrator *)

\* The branches run_pipeline_raw routes a turn to
Routed(q) ==
    {"evidence", "products"} \cup (IF q.image THEN {"vision"} ELSE {})
                             \cup (IF _should_call_graph(q) THEN {"graph"} ELSE {})

\* The part of the response that comes from branch b
Contribution(resp, b) ==
    IF b = "vision" THEN resp.vision_prefix
    ELSE IF b = "evidence" THEN resp.evidence_text
    ELSE IF b = "graph" THEN resp.graph_narrative
    ELSE resp.addon

\* C12: a downstream call that raises or times out never makes
\* run_pipeline_raw raise; when run_pipeline_raw returns, every routed call
\* was made, the response lacks the contribution of each branch that raised,
\* and it has the vision prefix, evidence text and graph narrative of each
\* branch that returned content.
C12_BranchErrorIsMissingSignal ==
    /\ opc = "raised" => \E b \in Branches : obranch[b] = "invalid"
    /\ opc = "returned" =>
         /\ oresp.present
         /\ \A b \in Routed(oreq) : obranch[b] # "notcalled"
         /\ \A b \in Branches :
              /\ obranch[b] = "error" => ~Contribution(oresp, b)
              /\ (obranch[b] = "valid" /\ b # "products") => Contribution(oresp, b)

\* The products call raised on a commercial turn: the response has the
\* evidence text and no addon.
C12_Witness ==
    /\ opc = "returned"
    /\ oreq.commercial
    /\ obranch["products"] = "error"
    /\ obranch["evidence"] = "valid"
    /\ oresp.evidence_text
    /\ ~oresp.addon

\* C13 (as stated): a payload that fails its contract schema never fails the
\* request; run_pipeline_raw still returns.
C13_InvalidPayloadIsMissingSignal ==
    (\E b \in Branches : obranch[b] = "invalid") => opc # "raised"

\* C14 (as stated): every turn read is answered by exactly one response
\* before the next turn is read, and the channel is never left with a turn
\* unanswered.
C14_OneResponsePerTurn ==
    /\ turns - responses \in {0, 1}
    /\ opc = "idle" => turns = responses
    /\ conn = "closed" => turns = responses

\* C15 (as stated): a request-level timeout turns the calls in flight into
\* branch failures and the request goes on to assemble its response.
C15_TimeoutStillAssembles ==
    otimeout => opc \in (Branches \cup {"returned", "idle"})

----------------------------------------------------------------------------
(* Properties of the retrieval caches *)

\* The request req is received by handler h in this step, after a response
\* for the same normalized key tuple was made from a backend call and less
\* than the TTL after that response.
SecondWithinTtl(h, req) ==
    /\ Receive(h, req)
    /\ KeyClass(csvc, req) \in DOMAIN served
    /\ now < served[KeyClass(csvc, req)].at + CacheTtl

\* The step answers the request from the cache: a response is sent, it is
\* flagged and counted as a cache hit, and no handler goes to the backend.
AnsweredFromCache ==
    /\ cresp'.n = cresp.n + 1
    /\ cresp'.cache_hit
    /\ metrics'.cache_hits_total = metrics.cache_hits_total + 1
    /\ cpc' = cpc
    /\ backendCalls' = backendCalls

Fresh(key) ==
    /\ key \in DOMAIN cstore
    /\ now < cstore[key].expires_at

\* C17: a lookup returns the stored value iff an entry exists and now <
\* expires_at, and then leaves the store alone; a lookup at or after
\* expires_at removes the entry and returns nothing, so that the request goes
\* to the backend again; a handler that caches what it fetched overwrites the
\* entry of its key with the value and expires_at = now + ttl.
C17_TtlGetSet ==
    [][ /\ \A h \in CacheHandlers, req \in Requests(csvc) :
              Receive(h, req)
              => LET key == CacheKey(csvc, req)
                 IN  IF Fresh(key)
                     THEN /\ AnsweredFromCache
                          /\ cresp'.payload = Payload_of(csvc, req, cstore[key].value)
                          /\ cstore' = cstore
                     ELSE /\ cresp' = cresp
                          /\ cpc'[h].pc = "backend"
                          /\ backendCalls' = backendCalls
                          /\ DOMAIN cstore' = DOMAIN cstore \ {key}
                          /\ \A k \in DOMAIN cstore' : cstore'[k] = cstore[k]
        /\ \A h \in CacheHandlers :
              (cpc[h].pc = "backend" /\ cpc'[h].pc = "idle" /\ ~cresp'.fallback)
              => /\ backendCalls' = backendCalls + 1
                 /\ cpc[h].key \in DOMAIN cstore'
                 /\ cstore'[cpc[h].key].expires_at = now + CacheTtl
                 /\ cresp'.payload =
                        Payload_of(csvc, cpc[h].req, cstore'[cpc[h].key].value)
                 /\ \A k \in DOMAIN cstore \ {cpc[h].key} :
                        k \in DOMAIN cstore' /\ cstore'[k] = cstore[k] ]_vars

\* A request was answered from a successful backend call and its value cached;
\* the entry has expired, and the lookup of a second request with the same
\* key removed it: the second request is at the backend.
C17_Witness ==
    \E h \in CacheHandlers :
        /\ cpc[h].pc = "backend"
        /\ cresp.n = 1
        /\ ~cresp.fallback
        /\ cresp.key = cpc[h].key
        /\ cpc[h].key \notin DOMAIN cstore
        /\ backendCalls = 1
        /\ nreq = 2
        /\ now >= CacheTtl

\* The candidates of a list whose confidence is at least the threshold; all
\* of them when there is no threshold.
AtLeast(candidates, min_confidence) ==
    SelectSeq(candidates,
              LAMBDA c : \A i \in DOMAIN min_confidence : c.confidence >= min_confidence[i])

\* C18: min_confidence is not part of the product cache key.  Of two
\* requests equal in (query_signature, market, destination, lang) after
\* normalization and different in min_confidence, the second arriving within
\* the TTL of the first's response, only the first invokes the backend; the
\* cache holds the unfiltered list the first one fetched, and each of the two
\* responses is that list filtered by the request's own min_confidence,
\* whichever of the two thresholds came first.
C18_MinConfidenceIsPostFilter ==
    [][ csvc = "products"
        => \A h \in CacheHandlers, req \in Requests(csvc) :
             LET first == served[KeyClass(csvc, req)]
             IN  (SecondWithinTtl(h, req) /\ first.req.mc # req.mc)
                 => /\ AnsweredFromCache
                    /\ cstore[CacheKey(csvc, req)].value = first.raw
                    /\ first.payload = AtLeast(first.raw, first.req.mc)
                    /\ cresp'.payload = AtLeast(first.raw, req.mc) ]_vars

\* A product request with a threshold was answered from the list a request
\* without one had fetched, with fewer candidates, after one backend call.
C18_Witness ==
    /\ csvc = "products"
    /\ cresp.cache_hit
    /\ backendCalls = 1
    /\ KeyClass(csvc, cresp.req) \in DOMAIN served
    /\ served[KeyClass(csvc, cresp.req)].req.mc = NoMinConfidence
    /\ cresp.req.mc # NoMinConfidence
    /\ Len(cresp.payload) < Len(served[KeyClass(csvc, cresp.req)].payload)
    /\ cresp.payload # <<>>

\* Handler h returns in this step with a fallback: its backend call failed.
ReturnsFallback(h) ==
    /\ cpc[h].pc = "backend"
    /\ cpc'[h].pc = "idle"
    /\ cresp'.n = cresp.n + 1
    /\ cresp'.fallback

\* C19: under any interleaving of requests for the same key, a handler whose
\* backend call failed leaves a cached successful result that has not
\* expired as it is.
C19_FallbackKeepsGoodEntry ==
    [][ \A h \in CacheHandlers :
          (/\ ReturnsFallback(h)
           /\ Fresh(cpc[h].key)
           /\ cstore[cpc[h].key].value # FallbackValue(csvc))
          => cstore'[cpc[h].key] = cstore[cpc[h].key] ]_vars

\* C20: a handler whose backend call failed writes nothing to the cache, and
\* a request that follows a fallback response for the same key is not
\* answered with the fallback from the cache.
C20_FallbackNeverCached ==
    [][ /\ \A h \in CacheHandlers : ReturnsFallback(h) => cstore' = cstore
        /\ \A h \in CacheHandlers, req \in Requests(csvc) :
              (/\ Receive(h, req)
               /\ KeyClass(csvc, req) \in DOMAIN served
               /\ served[KeyClass(csvc, req)].fallback)
              => ~(/\ cresp'.n = cresp.n + 1
                   /\ cresp'.cache_hit
                   /\ cresp'.payload = Payload_of(csvc, req, FallbackValue(csvc))) ]_vars

----------------------------------------------------------------------------
(* Properties of the guardrails *)

\* C22: when the response has no citations and its answer_text states a fact
\* (currency amount, date or time literal, obligation verb, source marker),
\* validate_and_fix returns the safe-fallback string as answer_text and an
\* empty citations list.
C22_UncitedFactIsRewritten ==
    (/\ fcall.fn = "validate_and_fix"
     /\ fcall.response.citations = <<>>
     /\ \E a \in AnswerSamples : a.factual /\ a.text = fcall.response.answer_text)
    => /\ fcall.out.answer_text = SAFE_FALLBACK
       /\ fcall.out.citations = <<>>

\* An uncited answer that is a date was replaced by the safe fallback.
C22_Witness ==
    /\ fcall.fn = "validate_and_fix"
    /\ fcall.response.citations = <<>>
    /\ fcall.response.answer_text = <<"1", "2", "/", "0", "5", "/", "2", "4">>
    /\ fcall.out.answer_text = SAFE_FALLBACK
    /\ fcall.out.citations = <<>>

\* C23: an addon is returned only if the user query mentions the vocabulary
\* of the addon's bucket; whenever it does not, the returned addon is null.
C23_AddonKeptOnlyIfRequested ==
    (fcall.fn = "validate_and_fix" /\ fcall.response.addon # <<>>)
    => \A x \in AddonSamples, q \in QuerySamples :
          (/\ x.addon = fcall.response.addon[1]
           /\ q.text = fcall.user_query
           /\ x.bucket \notin q.mentions)
          => fcall.out.addon = <<>>

\* C24: validate_and_fix returns the keys it was given, with session_id and
\* request_id as they were; it leaves the caller's dict as it was; and when
\* citations is non-empty it returns answer_text and citations as they were.
C24_OnlyAnswerCitationsAddonChange ==
    fcall.fn = "validate_and_fix"
    => /\ DOMAIN fcall.out = DOMAIN fcall.response
       /\ fcall.out.session_id = fcall.response.session_id
       /\ fcall.out.request_id = fcall.response.request_id
       /\ fcall.after = fcall.response
       /\ fcall.response.citations # <<>>
          => /\ fcall.out.answer_text = fcall.response.answer_text
             /\ fcall.out.citations = fcall.response.citations

\* A call that rewrote the answer and removed the addon, with the caller's
\* dict and the identifiers as they were.
C24_Witness ==
    /\ fcall.fn = "validate_and_fix"
    /\ fcall.out.answer_text # fcall.response.answer_text
    /\ fcall.out.addon # fcall.response.addon
    /\ fcall.after = fcall.response
    /\ fcall.out.session_id = "s1"
    /\ fcall.out.request_id = "r1"

----------------------------------------------------------------------------
(* Properties of the orchestrator's routing *)

\* C25: when the request is over, whether run_pipeline_raw returned or
\* raised, the evidence service and the product service have been called,
\* the graph service has been called iff the query contains an itinerary
\* keyword, and the vision service iff an image reference is present.  (No
\* service is called twice: each call site is passed once.)
C25_EachRoutedServiceCalledOnce ==
    opc \in {"returned", "raised"}
    => \A b \in Branches : (obranch[b] # "notcalled") <=> (b \in Routed(oreq))

\* C26: when the turn carries an audio reference, speech-to-text is called
\* before any other downstream service is; without an audio reference it is
\* never called.
C26_SttFirstWhenAudio ==
    /\ (~oreq.audio => obranch["stt"] = "notcalled")
    /\ (oreq.audio /\ (\E b \in Branches : obranch[b] # "notcalled")
          => obranch["stt"] # "notcalled")

----------------------------------------------------------------------------
(* Properties of the session memory *)

\* The step "recent:<intent>" a summary holds once the memory has taken the
\* text in: the text without the blanks around it.
RecentOf(user_query) ==
    <<"r", "e", "c", "e", "n", "t", ":">>
        \o (IF user_query = <<" ", "b">> THEN <<"b">> ELSE user_query)

\* C27: from the first downstream call of a turn on, the memory holds the
\* turn's query as its most recent step, the strategy_params of the evidence
\* request carry a memory summary that names it, and a "|mem:" digest in the
\* product query signature is the digest of a summary that names it.
C27_MemoryUpdatedBeforeFirstCall ==
    opc \in (Branches \cup {"returned", "raised", "cancelled"}) =>
        /\ _STORE.recent_plan_steps # <<>>
        /\ <<"r", "e", "c", "e", "n", "t", ":">> \o _STORE.recent_plan_steps[1]
               = RecentOf(oreq.user_query)
        /\ osent.strategy_params # <<>>
        /\ Contains(osent.strategy_params[1].memory_summary, RecentOf(oreq.user_query))
        /\ (opc = "products" \/ obranch["products"] # "notcalled") =>
               /\ osent.query_signature # <<>>
               /\ osent.query_signature[1].mem # <<>> =>
                      Contains(osent.query_signature[1].mem.sha256,
                               RecentOf(oreq.user_query))

\* The second turn of a session is at its product call: both requests carry
\* the memory of the two turns, the second first.
C27_Witness ==
    /\ turns = 2
    /\ opc = "products"
    /\ Len(_STORE.recent_plan_steps) = 2
    /\ osent.strategy_params # <<>>
    /\ osent.query_signature # <<>>
    /\ osent.query_signature[1].mem # <<>>
    /\ osent.query_signature[1].mem.sha256 = osent.strategy_params[1].memory_summary

\* C28: after any sequence of update() calls the memory keeps at most three
\* recent steps, no step twice and none longer than 200 characters; the first
\* step is that of the last query and the others are steps kept from before,
\* in the order they had; and summary() is at most 500 characters long.
C28_RecentStepsAndSummaryBounded ==
    LET steps == _STORE.recent_plan_steps
        Before(st) == CHOOSE i \in 1..Len(fcall.before) : fcall.before[i] = st
    IN  /\ Len(steps) <= 3
        /\ \A i, j \in 1..Len(steps) : i # j => steps[i] # steps[j]
        /\ \A i \in 1..Len(steps) : Len(steps[i]) <= 200
        /\ Len(summary(_STORE)) <= 500
        /\ fcall.fn = "update" =>
              /\ steps # <<>>
              /\ steps[1] = fcall.intent
              /\ \A i \in 2..Len(steps) :
                    \E k \in 1..Len(fcall.before) : fcall.before[k] = steps[i]
              /\ \A i, j \in 2..Len(steps) :
                    i < j => Before(steps[i]) < Before(steps[j])
              /\ Len(steps) = (IF Len(fcall.before) >= 3 THEN 3
                               ELSE IF \E k \in 1..Len(fcall.before) :
                                          fcall.before[k] = fcall.intent
                               THEN Len(fcall.before) ELSE Len(fcall.before) + 1)

\* A query of 201 characters is repeated while the memory holds three steps
\* of 200 characters: its step moves from the third place to the first and
\* the summary is cut to 500 characters.
C28_Witness ==
    /\ fcall.fn = "update"
    /\ Len(fcall.user_query) = 201
    /\ Len(fcall.before) = 3
    /\ fcall.before[3] = fcall.intent
    /\ _STORE.recent_plan_steps = <<fcall.intent, fcall.before[1], fcall.before[2]>>
    /\ Len(fcall.intent) = 200
    /\ Len(summary(_STORE)) = 500

----------------------------------------------------------------------------
(* Properties of the answer assembly *)

\* C29: in the answer of _build_answer_and_citations the vision prefix comes
\* first, then the evidence summaries in evidence order, then the lines of
\* the first three graph paths, and a part that is missing is left out; the
\* citations are the evidence source_urls in evidence order, then the
\* timestampUrls of the paths' evidence, then those of the subgraph edges.
\* Summaries are marked E, path labels L; links are marked u (evidence),
\* t (path evidence) and g (edge) and numbered in the order they are given.
C29_AnswerAndCitationsOrdered ==
    fcall.fn = "_build_answer_and_citations" =>
        LET answer == fcall.answer
            cits == fcall.citations
            Pos(c) == { i \in 1..Len(answer) : answer[i] = c }
            Marks == Pos("E") \cup Pos("L")
            Num(c) == CHOOSE n \in 1..4 : <<"1", "2", "3", "4">>[n] = c
            Kind(u) == IF u[1] = "u" THEN 1 ELSE IF u[1] = "t" THEN 2 ELSE 3
            paths == IF fcall.graph_response = <<>> THEN <<>>
                     ELSE fcall.graph_response[1].paths
            edges == IF fcall.graph_response = <<>> THEN <<>>
                     ELSE fcall.graph_response[1].subgraph.edges
            Given == ({ fcall.evidence[i].source_url : i \in 1..Len(fcall.evidence) }
                      \cup UNION { { paths[i].evidence[k] : k \in 1..Len(paths[i].evidence) } :
                                     i \in 1..Len(paths) }
                      \cup { edges[i].evidence : i \in 1..Len(edges) }) \ { <<>> }
        IN  /\ \A i \in Pos("E"), j \in Pos("L") : i < j
            /\ \A i, j \in Pos("E") : i < j => Num(answer[i + 1]) < Num(answer[j + 1])
            /\ \A i, j \in Pos("L") : i < j => Num(answer[i + 1]) < Num(answer[j + 1])
            /\ Cardinality(Pos("E")) = Len(fcall.evidence)
            /\ Cardinality(Pos("L")) = (IF Len(paths) < 3 THEN Len(paths) ELSE 3)
            /\ fcall.prefix => answer[1] \notin {"E", "L"}
            /\ (~fcall.prefix /\ Marks # {}) => 1 \in Marks
            /\ \A i \in 1..Len(answer) :
                  (\E m \in Marks : m <= i) =>
                      answer[i] \in {"E", "L", "n", "a", "1", "2", "3", "4", " ", ":", ","}
            /\ \A i, j \in 1..Len(cits) :
                  i < j => \/ Kind(cits[i]) < Kind(cits[j])
                           \/ /\ Kind(cits[i]) = Kind(cits[j])
                              /\ Num(cits[i][2]) < Num(cits[j][2])
            /\ { cits[i] : i \in 1..Len(cits) } = Given

\* A call with a vision prefix, three evidence items and four graph paths:
\* the answer has the three summaries and three path lines after the prefix,
\* and the six links are cited.
C29_Witness ==
    /\ fcall.fn = "_build_answer_and_citations"
    /\ fcall.prefix
    /\ Len(fcall.evidence) = 3
    /\ fcall.graph_response # <<>>
    /\ Len(fcall.graph_response[1].paths) = 4
    /\ Len(fcall.citations) = 6
    /\ fcall.citations[1] = <<"u", "1">>
    /\ fcall.citations[6] = <<"g", "2">>
    /\ fcall.answer[1] = "C"

----------------------------------------------------------------------------
(* Properties of the addon decision *)

\* C30: the response run_pipeline_raw returns has an addon iff the product
\* service returned at least one candidate and the query is commercial, or a
\* vision result exists in product_similarity mode, or a vision result exists
\* in packing mode and its signals yield a packing-gap query; the addon is
\* made of the first candidate; and when the product call failed there is no
\* addon.
C30_AddonIffCandidatesAndWanted ==
    opc = "returned" =>
        LET has_candidates == obranch["products"] = "valid"
            vision_result == oreq.image /\ obranch["vision"] \in {"valid", "nogap"}
            similarity == oreq.similar
            packing == ~oreq.similar /\ ~oreq.landmark
            gap == obranch["vision"] = "valid"
        IN  /\ oresp.addon <=>
                  /\ has_candidates
                  /\ \/ oreq.commercial
                     \/ vision_result /\ similarity
                     \/ vision_result /\ packing /\ gap
            /\ oresp.addon => oresp.top = 1
            /\ ~oresp.addon => oresp.top = 0
            /\ obranch["products"] = "error" => ~oresp.addon

\* A packing photo with a query that is not commercial: the vision signals
\* suggest a category, the product service returns candidates, and the
\* response has an addon made of the first of them.
C30_Witness ==
    /\ opc = "returned"
    /\ oreq.image /\ ~oreq.commercial /\ ~oreq.similar /\ ~oreq.landmark
    /\ obranch["vision"] = "valid"
    /\ obranch["products"] = "valid"
    /\ oresp.addon
    /\ oresp.top = 1
    /\ osent.query_signature[1].mem = <<>>

----------------------------------------------------------------------------
(* Properties of the graph service's fallback *)

\* C31: whenever the graph backend is unavailable, no driver or a failing
\* query alike, the graph service answers with the mock subgraph, not with an
\* empty one, and the request is recorded as a fallback.
C31_GraphFallbackIsMockSubgraph ==
    (csvc = "graph" /\ cresp.backend \in {"failed", "query_failed"}) =>
        /\ cresp.payload = <<Item("mock", 0)>>
        /\ cresp.fallback

----------------------------------------------------------------------------
(* Properties of merge_graph *)

\* C32: merge_graph gives one node per node id, in ascending order of id,
\* and one edge per (type, source, target, startSec, endSec), the first that
\* was given, in the order given; and the merge of a list followed by itself
\* is the merge of the list.
C32_MergeDedupesAndIsIdempotent ==
    fcall.fn = "merge_graph" =>
        LET nodes == fcall.out.nodes
            edges == fcall.out.edges
            exs == fcall.extractions
            Key(e) == <<e.type, e.source, e.target, e.startSec, e.endSec>>
            \* the places <<extraction, index>> of the edges given
            Places == { <<x, i>> : x \in 1..Len(exs), i \in 1..3 }
            Given == { pl \in Places : pl[2] <= Len(exs[pl[1]].edges) }
            At(pl) == exs[pl[1]].edges[pl[2]]
            Earlier(a, b) == a[1] < b[1] \/ (a[1] = b[1] /\ a[2] < b[2])
            First == { pl \in Given :
                         \A o \in Given : Key(At(o)) = Key(At(pl)) => ~Earlier(o, pl) }
        IN  /\ { nodes[i].id : i \in 1..Len(nodes) }
                  = UNION { { exs[x].nodes[i].id : i \in 1..Len(exs[x].nodes) } :
                              x \in 1..Len(exs) }
            /\ \A i, j \in 1..Len(nodes) : i < j => nodes[i].id < nodes[j].id
            /\ Len(edges) = Cardinality(First)
            /\ \A i \in 1..Len(edges) : \E pl \in First : At(pl) = edges[i]
            /\ \A i, j \in 1..Len(edges) :
                  i < j => \E a, b \in First :
                              At(a) = edges[i] /\ At(b) = edges[j] /\ Earlier(a, b)
            /\ fcall.twice = fcall.out

\* C36: in the output of merge_graph the aliases of every node are the
\* sorted union, without duplicates, of the aliases of all its occurrences,
\* also when it occurs once; and every property key has the value of its
\* first occurrence.
C36_AliasesSortedUnionPropertiesFirstSeen ==
    fcall.fn = "merge_graph" =>
        LET nodes == fcall.out.nodes
            exs == fcall.extractions
            Occ(id) == { <<x, i>> \in (1..Len(exs)) \X (1..2) :
                            i <= Len(exs[x].nodes) /\ exs[x].nodes[i].id = id }
            At(pl) == exs[pl[1]].nodes[pl[2]]
            Earlier(a, b) == a[1] < b[1] \/ (a[1] = b[1] /\ a[2] < b[2])
            AllAliases(id) ==
                UNION { { At(pl).aliases[k] : k \in 1..Len(At(pl).aliases) } : pl \in Occ(id) }
            Has(pl, k) == \E m \in 1..Len(At(pl).properties) : At(pl).properties[m][1] = k
            ValueAt(pl, k) ==
                At(pl).properties[CHOOSE m \in 1..Len(At(pl).properties) :
                                      At(pl).properties[m][1] = k][2]
        IN  \A n \in 1..Len(nodes) :
              LET node == nodes[n]
              IN  /\ { node.aliases[k] : k \in 1..Len(node.aliases) } = AllAliases(node.id)
                  /\ \A i, j \in 1..Len(node.aliases) :
                        i < j => node.aliases[i] < node.aliases[j]
                  /\ \A k \in {"k", "j"} :
                        (\E pl \in Occ(node.id) : Has(pl, k)) =>
                            \E pl \in Occ(node.id), m \in 1..Len(node.properties) :
                                /\ Has(pl, k)
                                /\ \A o \in Occ(node.id) : Has(o, k) => ~Earlier(o, pl)
                                /\ node.properties[m] = <<k, ValueAt(pl, k)>>

----------------------------------------------------------------------------
(* Properties of the vision signals *)

\* C33: the signals analyze_image returns have the mode of the request, name
\* detected, missing and suggested categories and a product category of the
\* 18-item set only, have a confidence within [0, 1] and at most three place
\* candidates; when the model call raised or its text could not be decoded
\* the confidence is 0 and error is set.
C33_SignalsWithinContract ==
    fcall.fn = "analyze_image" =>
        LET sig == fcall.signals
            In18(xs) == \A i \in 1..Len(xs) : xs[i] \in TRAVEL_ITEM_CATEGORIES
        IN  /\ sig.mode = fcall.mode
            /\ In18(sig.detected_items)
            /\ In18(sig.missing_categories)
            /\ In18(sig.suggested_categories_for_products)
            /\ In18(sig.category)
            /\ sig.confidence \in 0..10
            /\ Len(sig.place_candidates) <= 3
            /\ fcall.client \in {"raises", "undecodable"} =>
                  (sig.confidence = 0 /\ sig.error # <<>>)

----------------------------------------------------------------------------
(* Properties of the worker loop under fair scheduling *)

\* C34: with the workers scheduled fairly, from some point on the input queue
\* is empty (every message put on it was removed and none is received again
\* and again), and every content source requested has its write recorded or
\* a document in the DLQ.
C34_EveryRequestSettles ==
    <>[](/\ inputQueue = EmptyBag
         /\ \A cs \in ContentSources :
                CopiesIn(<<cs, "requested">>, requested) > 0 =>
                    \/ \E i \in 1..Len(writeEvents) : writeEvents[i].content_source_id = cs
                    \/ \E d \in BagToSet(dlqQueue) : d.content_source_id = cs)

----------------------------------------------------------------------------
(* Properties of the cache key *)

\* C35: two requests whose normalized key tuples differ in a component get
\* different cache keys.
C35_CacheKeyInjective ==
    fcall.fn = "build_cache_key" =>
        LET Normalized(parts) == [i \in 1..Len(parts) |-> _normalize_string(parts[i])]
        IN  Normalized(fcall.a) # Normalized(fcall.b) => fcall.key_a # fcall.key_b

----------------------------------------------------------------------------
(* Properties of an answer built on the mock subgraph *)

\* C37: when the graph payload is the mock subgraph, no link of the mock
\* subgraph is among the citations, and an answer that states a fact and has
\* no citation from the evidence is replaced by the safe fallback.
C37_MockLinksAreNoCitations ==
    fcall.fn = "answer_with_mock_subgraph" =>
        LET edges == get_subgraph_mock.subgraph.edges
            mock == { edges[i].evidence : i \in 1..Len(edges) }
            cited == \E i \in 1..Len(fcall.evidence) : fcall.evidence[i].source_url # <<>>
        IN  /\ \A i \in 1..Len(fcall.response.citations) :
                   fcall.response.citations[i] \notin mock
            /\ (fcall.factual /\ ~cited) => fcall.out.answer_text = SAFE_FALLBACK

----------------------------------------------------------------------------
(* Properties of the metrics counters *)

\* C38: however the handlers' calls of record_request interleave, no counter
\* ever decreases and cache_hits_total never exceeds requests_total; and when
\* the calls ran one after the other, n calls of which k were cache hits
\* leave requests_total = n and cache_hits_total = k.
C38_CountersMonotoneAndExact ==
    /\ [][\A c \in DOMAIN metrics : metrics'[c] >= metrics[c]]_vars
    /\ [](metrics.cache_hits_total <= metrics.requests_total)
    /\ []((served = <<>> /\ \A h \in CacheHandlers : cpc[h].pc = "idle") =>
            /\ metrics.requests_total = nreq
            /\ metrics.cache_hits_total = nreq - backendCalls)

----------------------------------------------------------------------------
(* Properties of the retry count along the stages *)

\* C40: the successor process_one_message sends carries the content_source_id,
\* retry_count and max_retries of the message processed and an event_id no
\* message had before; and a content source is sent back to the input queue
\* for retry fewer than max_retries times in all.
C40_SuccessorKeepsRetryCount ==
    /\ [][(last' # last /\ last'.sent = "next") =>
            \E next \in BagToSet(inputQueue') :
                /\ CopiesIn(next, inputQueue) = 0
                /\ next.content_source_id = last'.body.content_source_id
                /\ next.retry_count = last'.body.retry_count
                /\ next.max_retries = last'.body.max_retries
                /\ next.stage # last'.body.stage
                /\ \A m \in BagToSet(inputQueue) \cup BagToSet(dlqQueue) :
                       m.event_id # next.event_id]_vars
    /\ [](\A cs \in ContentSources :
            CopiesIn(<<cs, "retry">>, emitted) < DefaultMaxRetries)

----------------------------------------------------------------------------
(* Properties of a successor whose enqueue failed *)

\* C39: when a handler has marked the next stage's key and returned a
\* successor and process_one_message left before the successor was sent
\* (send_message raised), the successor of that content source and stage is
\* on the input queue at some later time.
C39_SuccessorEventuallyEnqueued ==
    \A cs \in ContentSources, stage \in SuccessorStages :
        (/\ last.why = "emitted"
         /\ last.sqsError = "send"
         /\ last.body.content_source_id = cs
         /\ SuccessorStage(last.body.stage) = stage)
        ~> (\E m \in BagToSet(inputQueue) :
                m.content_source_id = cs /\ m.stage = stage)

====
